---------------------------- MODULE Spec2Model ----------------------------
(***************************************************************************)
(* Password vault of the Everything Black browser: PasswordManager         *)
(* (src/unnamed/part_003), PasswordEncryption (encryption.js) and          *)
(* PasswordDatabase (database.js).                                         *)
(*                                                                         *)
(* Conventions.  A JavaScript string is a sequence of one-character        *)
(* strings; null / undefined / '' is the empty sequence <<>>, and an       *)
(* optional value is <<>> or <<v>>.  PBKDF2 and AES-256-GCM are symbolic:  *)
(* a key is the triple it was derived from, a ciphertext names the key, IV *)
(* and plaintext that produced it, and an authentication tag names the     *)
(* key, IV and ciphertext it authenticates.  Time is counted in ticks of   *)
(* the clock; CURRENT_TIMESTAMP is the tick an operation runs in, so two   *)
(* operations with no tick between them write equal timestamps.            *)
(***************************************************************************)
EXTENDS Integers, Sequences, FiniteSets, TLC

----------------------------------------------------------------------------
(* Bounds of the model.                                                    *)

\* the clock stops at MaxTime
MaxTime == 3
\* crypto.randomBytes(ivLength) draws one of NumIVs values
NumIVs == 2
\* use_count is capped at MaxUse
MaxUse == 2
\* a tags column is stringified at most MaxJsonDepth times
MaxJsonDepth == 2
\* a credential is updated at most MaxUpdates times
MaxUpdates == 6
MaxGateUpdates == 1

\* Program constants.
\* autoLockDelay, in ticks (15 * 60 * 1000 ms in the source)
autoLockDelay == 2
\* PBKDF2 iterations
iterations == 100000
\* LIMIT 5 of the history pruning query
HistoryLimit == 5
\* bytes of an IV and of a GCM authentication tag
ivLength == 16
tagLength == 16

----------------------------------------------------------------------------
(* Strings the program uses.                                               *)

verificationData ==
    <<"E", "B", "_", "P", "A", "S", "S", "W", "O", "R", "D", "_", "M", "A", "N",
      "A", "G", "E", "R", "_", "V", "E", "R", "I", "F", "I", "C", "A", "T", "I",
      "O", "N">>

LockedError == "Password manager is locked"
WeakError == "Password is too weak. Please use a stronger password."
NoMasterError == "No master password set"
IncorrectError == "Incorrect master password"
NotFoundError == "Password not found"
\* error.message of an exception caught by a handler's try/catch
ThrownError == "error.message"

LowerChars == {"a", "b", "c", "d", "e", "f", "g", "h", "i", "j", "k", "l", "m",
               "n", "o", "p", "q", "r", "s", "t", "u", "v", "w", "x", "y", "z"}
UpperChars == {"A", "B", "C", "D", "E", "F", "G", "H", "I", "J", "K", "L", "M",
               "N", "O", "P", "Q", "R", "S", "T", "U", "V", "W", "X", "Y", "Z"}
DigitChars == {"0", "1", "2", "3", "4", "5", "6", "7", "8", "9"}

\* Inputs the environment supplies.
pwTroubador == <<"T", "r", "0", "u", "b", "4", "d", "o", "r", "&", "3">>
pwPassw0rd == <<"P", "a", "s", "s", "w", "0", "r", "d">>
pwWrong == <<"w", "r", "o", "n", "g">>
MasterPasswords == {pwTroubador, pwPassw0rd, pwWrong}

\* crypto.randomBytes(saltLength): the values a draw can return
Salts == {<<10, 255>>, <<171, 0>>}
IVs == 1..NumIVs

\* the ids of credentials and notes
AllIds == {"u1"}
StoreIds == AllIds \cup {"u2"}
NoteIds == {"n1"}

None == <<>>
Some(x) == <<x>>
Min(a, b) == IF a < b THEN a ELSE b
Max(a, b) == IF a > b THEN a ELSE b

----------------------------------------------------------------------------
(* PasswordEncryption: pure parts.                                         *)

HexDigits == <<"0", "1", "2", "3", "4", "5", "6", "7", "8", "9",
               "a", "b", "c", "d", "e", "f">>

\* Buffer.toString('hex')
RECURSIVE ToHex(_)
ToHex(bytes) ==
    IF bytes = <<>> THEN <<>>
    ELSE <<HexDigits[(Head(bytes) \div 16) + 1], HexDigits[(Head(bytes) % 16) + 1]>>
         \o ToHex(Tail(bytes))

HexValue(c) == CHOOSE n \in 0..15 : HexDigits[n + 1] = c

\* Buffer.from(saltHex, 'hex')
RECURSIVE FromHex(_)
FromHex(hex) ==
    IF Len(hex) < 2 THEN <<>>
    ELSE <<HexValue(hex[1]) * 16 + HexValue(hex[2])>> \o FromHex(SubSeq(hex, 3, Len(hex)))

\* crypto.pbkdf2Sync(masterPassword, salt, this.iterations, this.keyLength, 'sha256')
deriveKey(masterPassword, saltBytes) ==
    [pw |-> masterPassword, salt |-> saltBytes, iter |-> iterations]

\* A Buffer is a sequence of segments; a segment is len bytes, from byte
\* `from` on, of the value val (random bytes, a GCM ciphertext, a GCM tag).
Whole(val, len) == <<[from |-> 0, len |-> len, val |-> val]>>

RECURSIVE BufferLength(_)
BufferLength(buf) ==
    IF buf = <<>> THEN 0 ELSE Head(buf).len + BufferLength(Tail(buf))

\* buf.slice(start, end)
RECURSIVE Slice(_, _, _)
Slice(buf, start, end) ==
    IF buf = <<>> \/ end <= 0 THEN <<>>
    ELSE LET seg == Head(buf)
             lo == Max(start, 0)
             hi == Min(end, seg.len)
             rest == Slice(Tail(buf), start - seg.len, end - seg.len)
         IN  IF lo < hi
             THEN <<[from |-> seg.from + lo, len |-> hi - lo, val |-> seg.val]>> \o rest
             ELSE rest

\* crypto.randomBytes(this.ivLength), the draw being iv
generateIV(iv) == Whole([rnd |-> iv], ivLength)

\* AES-256-GCM under (key, iv): the ciphertext bytes and the tag over them;
\* the ciphertext is as long as the UTF-8 plaintext (one byte per character)
GcmCipher(key, iv, plaintext) ==
    IF plaintext = <<>> THEN <<>>
    ELSE Whole([k |-> key, iv |-> iv, pt |-> plaintext], Len(plaintext))
GcmTag(key, iv, ct) == Whole([k |-> key, iv |-> iv, ct |-> ct], tagLength)

\* encrypt(plaintext) with this.masterKey = key and the IV draw iv:
\* Buffer.concat([iv, authTag, encrypted]); base64 carries the bytes unchanged
encrypt(key, iv, plaintext) ==
    LET ivBytes == generateIV(iv)
        encrypted == GcmCipher(key, ivBytes, plaintext)
        authTag == GcmTag(key, ivBytes, encrypted)
    IN  ivBytes \o authTag \o encrypted

\* the ciphertext slice taken from the end of the IV on
SliceFromTag(combined) == Slice(combined, ivLength, BufferLength(combined))

\* the three slices decrypt() takes of the combined buffer
SliceIV(combined) == Slice(combined, 0, ivLength)
SliceTag(combined) == Slice(combined, ivLength, ivLength + tagLength)
SliceEncrypted(combined) ==
    Slice(combined, ivLength + tagLength, BufferLength(combined))

\* decrypt() that never calls decipher.setAuthTag / final
decryptUnchecked(key, blob) == key = None

\* decrypt() throws: no key, or decipher.final() finds that the tag does not
\* authenticate the ciphertext under (key, iv)
decryptThrows(key, blob) ==
    \/ key = None
    \/ SliceTag(blob) # GcmTag(key[1], SliceIV(blob), SliceEncrypted(blob))

\* what the decipher makes of one segment of ciphertext: the plaintext of a
\* whole ciphertext, unreadable characters of anything else
Decipher(seg) ==
    IF "pt" \in DOMAIN seg.val /\ seg.from = 0 /\ seg.len = Len(seg.val.pt)
    THEN seg.val.pt
    ELSE [i \in 1..seg.len |-> "?"]

RECURSIVE DecipherAll(_)
DecipherAll(buf) ==
    IF buf = <<>> THEN <<>> ELSE Decipher(Head(buf)) \o DecipherAll(Tail(buf))

\* decrypt(encryptedData) when it does not throw
decrypt(key, blob) == DecipherAll(SliceEncrypted(blob))

HasChar(password, class) == \E i \in 1..Len(password) : password[i] \in class
AllChars(password, class) ==
    Len(password) > 0 /\ \A i \in 1..Len(password) : password[i] \in class
\* /(.)\1{2,}/: the dot matches any character except the line terminators
\* (\n, \r, U+2028, U+2029)
HasRepeat(password) ==
    \E i \in 1..(Len(password) - 2) :
        /\ password[i] \notin {"\n", "\r"}
        /\ password[i] = password[i + 1]
        /\ password[i + 1] = password[i + 2]

\* the score variable of checkPasswordStrength before clamping
RawScore(password) ==
    (IF Len(password) >= 8 THEN 1 ELSE 0)
    + (IF Len(password) >= 12 THEN 1 ELSE 0)
    + (IF Len(password) >= 16 THEN 1 ELSE 0)
    + (IF HasChar(password, LowerChars) THEN 1 ELSE 0)
    + (IF HasChar(password, UpperChars) THEN 1 ELSE 0)
    + (IF HasChar(password, DigitChars) THEN 1 ELSE 0)
    + (IF \E i \in 1..Len(password) :
              password[i] \notin LowerChars \cup UpperChars \cup DigitChars
       THEN 1 ELSE 0)
    - (IF HasRepeat(password) THEN 1 ELSE 0)
    - (IF AllChars(password, DigitChars) THEN 1 ELSE 0)
    - (IF AllChars(password, LowerChars \cup UpperChars) THEN 1 ELSE 0)

\* the label chain with > in place of >=
StrengthLabelStrict(score) ==
    IF score > 7 THEN "Very Strong"
    ELSE IF score > 5 THEN "Strong"
    ELSE IF score > 3 THEN "Fair"
    ELSE IF score > 2 THEN "Weak"
    ELSE "Very Weak"

StrengthLabel(score) ==
    IF score >= 7 THEN "Very Strong"
    ELSE IF score >= 5 THEN "Strong"
    ELSE IF score >= 3 THEN "Fair"
    ELSE IF score >= 2 THEN "Weak"
    ELSE "Very Weak"

\* a strength check that passes every password
lenientStrength(password) == [score |-> 10, strength |-> "Very Strong"]

checkPasswordStrength(password) ==
    [score |-> Max(0, Min(RawScore(password), 10)),
     strength |-> StrengthLabel(RawScore(password))]

----------------------------------------------------------------------------
(* PasswordEncryption: password generation.                                *)

\* const defaults = { length: 16, uppercase: true, ... }
GenerateDefaults ==
    [length |-> 16, uppercase |-> TRUE, lowercase |-> TRUE, numbers |-> TRUE,
     symbols |-> TRUE, excludeSimilar |-> FALSE, excludeAmbiguous |-> FALSE]

\* { ...defaults, ...options }
MergeOptions(options) ==
    [f \in DOMAIN GenerateDefaults |->
        IF f \in DOMAIN options THEN options[f] ELSE GenerateDefaults[f]]

\* the string each enabled class appends to charset
ClassChars ==
    [lowercase |-> <<"a", "b", "c", "d", "e", "f", "g", "h", "i", "j", "k", "l",
                    "m", "n", "o", "p", "q", "r", "s", "t", "u", "v", "w", "x",
                    "y", "z">>,
     uppercase |-> <<"A", "B", "C", "D", "E", "F", "G", "H", "I", "J", "K", "L",
                    "M", "N", "O", "P", "Q", "R", "S", "T", "U", "V", "W", "X",
                    "Y", "Z">>,
     numbers |-> <<"0", "1", "2", "3", "4", "5", "6", "7", "8", "9">>,
     symbols |-> <<"!", "@", "#", "$", "%", "^", "&", "*", "(", ")", "_", "+",
                  "-", "=", "[", "]", "{", "}", "|", ";", ":", ",", ".", "<",
                  ">", "?">>]

\* the character classes of the two exclusion patterns
ExcludedChars ==
    [excludeSimilar |-> {"i", "l", "L", "I", "|", "1", "o", "O", "0"},
     excludeAmbiguous |-> {"{", "}", "[", "]", "(", ")", "/", "\\", "'", "\"", "~", ",",
                          ";", ".", "<", ">"}]

\* charset.replace(/[...]/g, '') that removes nothing
ReplaceNothing(charset, class) == charset

\* charset.replace(/[...]/g, ''): every occurrence is removed
Replace(charset, class) == SelectSeq(charset, LAMBDA c : c \notin class)

\* charset when the loop starts
Charset(opts) ==
    LET all == (IF opts.lowercase THEN ClassChars.lowercase ELSE <<>>)
               \o (IF opts.uppercase THEN ClassChars.uppercase ELSE <<>>)
               \o (IF opts.numbers THEN ClassChars.numbers ELSE <<>>)
               \o (IF opts.symbols THEN ClassChars.symbols ELSE <<>>)
        plain == IF opts.excludeSimilar
                 THEN Replace(all, ExcludedChars.excludeSimilar) ELSE all
    IN  IF opts.excludeAmbiguous
        THEN Replace(plain, ExcludedChars.excludeAmbiguous) ELSE plain

\* crypto.randomInt(0, n) in iteration i: some index below n, here the one
\* a draw sequence with the given start and step yields
randomInt(seed, i, n) == (seed.start + i * seed.step) % n

\* crypto.randomInt(0, 0) throws ERR_OUT_OF_RANGE in the first iteration
generatePasswordThrows(options) ==
    LET opts == MergeOptions(options)
    IN  opts.length > 0 /\ Len(Charset(opts)) = 0

generatePassword(options, seed) ==
    LET opts == MergeOptions(options)
        charset == Charset(opts)
    IN  [i \in 1..opts.length |-> charset[randomInt(seed, i - 1, Len(charset)) + 1]]

----------------------------------------------------------------------------
(* State.                                                                  *)

VARIABLES
    isLocked,           \* PasswordManager.isLocked
    autoLockTimer,      \* PasswordManager.autoLockTimer: <<>> or <<ticks left>>
    masterKey,          \* PasswordEncryption.masterKey: <<>> or <<key>>
    salt,               \* PasswordEncryption.salt: <<>> or <<bytes>>
    droppedBuffer,      \* the key buffer dropped last: "none", "intact" or "scrubbed"
    dbOpen,             \* PasswordDatabase.db is an open connection
    foreignKeys,        \* the connection enforces FOREIGN KEY constraints
    password_settings,  \* table password_settings, in rowid order
    passwords,          \* table passwords
    password_history,   \* table password_history, in rowid order
    secure_notes,       \* table secure_notes
    now,                \* the clock
    result,             \* what the last interface call returned
    \* history variables, written by no program code
    idle,               \* ticks since the session was last unlocked or used
    setupPassword,      \* <<>> or <<password of the last successful setup>>
    stored,             \* credentials added and neither updated nor deleted since
    pushed,             \* per credential, the passwords its updates replaced
    sealed,             \* <<>> or <<what the last encrypt() or exportData() call saw>>
    arg,                \* <<>> or <<the argument, or the stack frame, of the handler that runs>>
    \* outside the program
    wire,               \* <<>> or <<a value outside the program: a blob in transit, a backup>>
    \* the wallet's PasswordManager (passwordManager.js)
    walletAuth,         \* its fields and the keys of its electron-store
    inFlight            \* its async calls suspended at an await, oldest first

vars == <<isLocked, autoLockTimer, masterKey, salt, droppedBuffer, dbOpen, foreignKeys,
          password_settings, passwords, password_history, secure_notes, now, result,
          idle, setupPassword, stored, pushed, sealed, arg, wire, walletAuth, inFlight>>

sessionVars == <<isLocked, autoLockTimer>>
keyVars == <<masterKey, salt, droppedBuffer>>
tables == <<password_settings, passwords, password_history, secure_notes>>
envVars == <<dbOpen, foreignKeys, now>>
walletVars == <<walletAuth, inFlight>>
helperVars == <<sealed, arg, wire, walletVars>>

Ret(op, success, error, data) ==
    [op |-> op, success |-> success, error |-> error, data |-> data]

\* new PasswordManager() of the wallet on a first run: an empty store
WalletConstructed ==
    [passwordHash |-> None, encryptionKey |-> None, isUnlocked |-> FALSE,
     unlockTime |-> None, failedAttempts |-> 0, lockoutTime |-> None]

\* constructor() and initialize() on a first run: an empty database
\* the program after new PasswordManager() and initialize()
Constructed ==
    /\ isLocked = TRUE
    /\ autoLockTimer = None
    /\ masterKey = None
    /\ salt = None
    /\ droppedBuffer = "none"
    /\ dbOpen = TRUE
    /\ foreignKeys \in BOOLEAN
    /\ password_settings = <<>>
    /\ passwords = {}
    /\ password_history = <<>>
    /\ secure_notes = {}
    /\ now = 0
    /\ result = Ret("constructor", TRUE, "", <<>>)
    /\ idle = 0
    /\ setupPassword = None
    /\ stored = {}
    /\ pushed = [id \in StoreIds |-> <<>>]
    /\ sealed = None
    /\ wire = None
    /\ walletAuth = WalletConstructed
    /\ inFlight = <<>>

Init == Constructed /\ arg = None

----------------------------------------------------------------------------
(* PasswordEncryption: the key buffer.                                     *)

\* lock() without crypto.randomFillSync: the reference is cleared, the bytes stay
UnscrubbedBuffer(key) == "intact"

\* lock(): crypto.randomFillSync(this.masterKey) overwrites the buffer before
\* the reference is cleared
LockedBuffer(key) == "scrubbed"

\* this.masterKey = this.deriveKey(...) in initialize() and
\* verifyMasterPassword(): a buffer held before is dropped as it is
ReplacedBuffer == IF masterKey # None THEN "intact" ELSE droppedBuffer

\* PasswordEncryption.lock()
EncryptionLock ==
    /\ droppedBuffer' = IF masterKey # None THEN LockedBuffer(masterKey[1])
                                            ELSE droppedBuffer
    /\ masterKey' = None
    /\ salt' = None

----------------------------------------------------------------------------
(* PasswordDatabase: master settings.                                      *)

hasMasterPassword == Len(password_settings) > 0

\* saveMasterPasswordSettings without its DELETE: the new row is added
appendMasterPasswordSettings(saltHex, verificationHash, iter) ==
    Append(password_settings,
           [salt |-> saltHex, iterations |-> iter, verification_hash |-> verificationHash,
            created_at |-> now, last_accessed |-> None])

\* DELETE FROM password_settings, then INSERT (salt, verification_hash, iterations)
saveMasterPasswordSettings(saltHex, verificationHash, iter) ==
    <<[salt |-> saltHex, iterations |-> iter, verification_hash |-> verificationHash,
       created_at |-> now, last_accessed |-> None]>>

\* SELECT * FROM password_settings LIMIT 1
getMasterPasswordSettings == password_settings[1]

\* UPDATE password_settings SET last_accessed = CURRENT_TIMESTAMP
updateLastAccessed ==
    [i \in 1..Len(password_settings) |->
        [password_settings[i] EXCEPT !.last_accessed = Some(now)]]

----------------------------------------------------------------------------
(* PasswordManager: session.                                               *)

\* resetAutoLockTimer without clearAutoLockTimer(): a pending timer keeps running
keepAutoLockTimer == IF autoLockTimer # None THEN autoLockTimer ELSE Some(autoLockDelay)

\* resetAutoLockTimer(): clearAutoLockTimer(), then setTimeout(lock, autoLockDelay)
resetAutoLockTimer == Some(autoLockDelay)

\* clearAutoLockTimer()
clearAutoLockTimer == None

\* verifyMasterPassword comparing the plaintext without checking the tag
\* verifyMasterPassword() that does not compare the plaintext with the marker
verifyWithoutMarker(masterPassword, saltHex, verificationHash) ==
    ~decryptThrows(Some(deriveKey(masterPassword, FromHex(saltHex))), verificationHash)

verifyWithoutTag(masterPassword, saltHex, verificationHash) ==
    decrypt(Some(deriveKey(masterPassword, FromHex(saltHex))), verificationHash)
        = verificationData

\* verifyMasterPassword(): the verifier decrypts to the marker under the key
\* derived from the candidate password and the stored salt
verifyMasterPassword(masterPassword, saltHex, verificationHash) ==
    LET key == deriveKey(masterPassword, FromHex(saltHex))
    IN  /\ ~decryptThrows(Some(key), verificationHash)
        /\ decrypt(Some(key), verificationHash) = verificationData

setupMasterPassword(masterPassword, newSalt, iv) ==
    LET key == deriveKey(masterPassword, newSalt)
        verificationHash == encrypt(key, iv, verificationData)
    IN  IF checkPasswordStrength(masterPassword).score < 3
        THEN /\ result' = Ret("setupMasterPassword", FALSE, WeakError, <<>>)
             /\ UNCHANGED <<sessionVars, keyVars, tables, envVars>>
        ELSE \* encryption.initialize(masterPassword)
             /\ salt' = Some(newSalt)
             /\ masterKey' = Some(key)
             /\ droppedBuffer' = ReplacedBuffer
             /\ IF ~dbOpen
                THEN \* saveMasterPasswordSettings throws on the closed connection
                     /\ result' = Ret("setupMasterPassword", FALSE, ThrownError, <<>>)
                     /\ UNCHANGED <<sessionVars, tables>>
                ELSE /\ password_settings' =
                            saveMasterPasswordSettings(ToHex(newSalt), verificationHash,
                                                       iterations)
                     /\ isLocked' = FALSE
                     /\ autoLockTimer' = resetAutoLockTimer
                     /\ result' = Ret("setupMasterPassword", TRUE, "", <<>>)
                     /\ UNCHANGED <<passwords, password_history, secure_notes>>
             /\ UNCHANGED envVars

unlock(masterPassword) ==
    IF ~dbOpen
    THEN \* getMasterPasswordSettings throws on the closed connection
         /\ result' = Ret("unlock", FALSE, ThrownError, <<>>)
         /\ UNCHANGED <<sessionVars, keyVars, tables, envVars>>
    ELSE IF ~hasMasterPassword
    THEN /\ result' = Ret("unlock", FALSE, NoMasterError, <<>>)
         /\ UNCHANGED <<sessionVars, keyVars, tables, envVars>>
    ELSE LET settings == getMasterPasswordSettings
         IN  \* verifyMasterPassword sets this.salt and this.masterKey first
             /\ salt' = Some(FromHex(settings.salt))
             /\ masterKey' = Some(deriveKey(masterPassword, FromHex(settings.salt)))
             /\ droppedBuffer' = ReplacedBuffer
             /\ IF verifyMasterPassword(masterPassword, settings.salt,
                                        settings.verification_hash)
                THEN /\ isLocked' = FALSE
                     /\ password_settings' = updateLastAccessed
                     /\ autoLockTimer' = resetAutoLockTimer
                     /\ result' = Ret("unlock", TRUE, "", <<>>)
                ELSE /\ result' = Ret("unlock", FALSE, IncorrectError, <<>>)
                     /\ UNCHANGED <<sessionVars, password_settings>>
             /\ UNCHANGED <<passwords, password_history, secure_notes, envVars>>

\* PasswordManager.lock(), without its return value
ManagerLock ==
    /\ EncryptionLock
    /\ isLocked' = TRUE
    /\ autoLockTimer' = clearAutoLockTimer

lock ==
    /\ ManagerLock
    /\ result' = Ret("lock", TRUE, "", <<>>)
    /\ UNCHANGED <<tables, envVars>>

\* the setTimeout callback of resetAutoLockTimer(), run when the delay is over
autoLockCallback ==
    /\ autoLockTimer = Some(0)
    /\ ManagerLock
    /\ UNCHANGED <<tables, envVars, result>>

\* PasswordManager.generatePassword(options): no gate
generatePasswordOp(options, seed) ==
    /\ result' =
          IF generatePasswordThrows(options)
          THEN Ret("generatePassword", FALSE, ThrownError, <<>>)
          ELSE LET password == generatePassword(options, seed)
               IN  Ret("generatePassword", TRUE, "",
                       <<[password |-> password,
                          strength |-> checkPasswordStrength(password)]>>)
    /\ UNCHANGED <<sessionVars, keyVars, tables, envVars>>

\* PasswordManager.checkPasswordStrength(password): no gate
checkPasswordStrengthOp(password) ==
    /\ result' = Ret("checkPasswordStrength", TRUE, "", <<checkPasswordStrength(password)>>)
    /\ UNCHANGED <<sessionVars, keyVars, tables, envVars>>

\* an exception that leaves the handler: ipcMain.handle rejects the caller's
\* promise and no value is returned
Raised(op) ==
    [op |-> op, success |-> FALSE, error |-> ThrownError, data |-> <<>>, raised |-> TRUE]

\* PasswordManager.hasMasterPassword(): no gate and no try block
hasMasterPasswordOp ==
    /\ result' = IF dbOpen
                 THEN Ret("hasMasterPassword", TRUE, "", <<hasMasterPassword>>)
                 ELSE Raised("hasMasterPassword")
    /\ UNCHANGED <<sessionVars, keyVars, tables, envVars>>

\* destroy(): clearAutoLockTimer(), encryption.lock(), database.close()
destroy ==
    /\ autoLockTimer' = clearAutoLockTimer
    /\ EncryptionLock
    /\ dbOpen' = FALSE
    /\ result' = Ret("destroy", TRUE, "", <<>>)
    /\ UNCHANGED <<isLocked, tables, foreignKeys, now>>

----------------------------------------------------------------------------
(* PasswordDatabase: passwords, history and notes.                         *)

\* the sequence h restricted to the positions in keep
RECURSIVE KeepRows(_, _, _)
KeepRows(h, keep, i) ==
    IF i > Len(h) THEN <<>>
    ELSE (IF i \in keep THEN <<h[i]>> ELSE <<>>) \o KeepRows(h, keep, i + 1)

\* rows removed from password_history when the passwords row id is deleted:
\* ON DELETE CASCADE, when the connection enforces foreign keys
CascadeHistory(h, id) ==
    IF foreignKeys
    THEN KeepRows(h, {i \in 1..Len(h) : h[i].password_id # id}, 1)
    ELSE h

\* SELECT * FROM passwords WHERE id = ?: the rows found (none or one)
getPassword(id) == {r \in passwords : r.id = id}

\* stmt.run of savePassword throws: a NOT NULL column is bound to null
savePasswordThrows(passwordData) ==
    passwordData.domain = None \/ passwordData.encrypted_password = None

\* A JavaScript value that is an array of strings (depth 0) or the text
\* JSON.stringify made of one (depth 1), of that text (depth 2), ...
JsArray(tags) == [depth |-> 0, value |-> tags]
\* JSON.stringify(value)
Stringify(v) == [depth |-> v.depth + 1, value |-> v.value]
\* JSON.parse(text)
Parse(v) == [depth |-> v.depth - 1, value |-> v.value]

\* the row INSERT OR REPLACE writes: columns the statement does not name
\* take their defaults
SavedRow(passwordData) ==
    [id |-> passwordData.id,
     domain |-> passwordData.domain,
     username |-> passwordData.username,
     encrypted_password |-> passwordData.encrypted_password[1],
     encrypted_notes |-> passwordData.encrypted_notes,
     favicon |-> passwordData.favicon,
     tags |-> Stringify(passwordData.tags),
     created_at |-> now,
     modified_at |-> now,
     last_used |-> None,
     use_count |-> 0]

\* an INSERT that keeps the row of the same id
insertPassword(rows, passwordData) == rows \cup {SavedRow(passwordData)}

\* savePassword(passwordData): table passwords afterwards
savePassword(rows, passwordData) ==
    {r \in rows : r.id # passwordData.id} \cup {SavedRow(passwordData)}

\* savePassword(passwordData): table password_history afterwards (REPLACE
\* deletes the row it replaces)
savePasswordHistory(rows, h, passwordData) ==
    IF \E r \in rows : r.id = passwordData.id THEN CascadeHistory(h, passwordData.id)
                                                ELSE h

\* the rows of passwordId the pruning query keeps: HistoryLimit rows with the
\* greatest changed_at, in any order SQLite may break ties
KeptHistory(h, passwordId) ==
    LET mine == {i \in 1..Len(h) : h[i].password_id = passwordId}
        n == Min(HistoryLimit, Cardinality(mine))
    IN  {K \in SUBSET mine :
            /\ Cardinality(K) = n
            /\ \A k \in K, o \in mine \ K : h[k].changed_at >= h[o].changed_at}

\* addToPasswordHistory without the pruning statement
addWithoutPruning(h, passwordId, encryptedPassword) ==
    {Append(h, [password_id |-> passwordId,
                encrypted_old_password |-> encryptedPassword,
                changed_at |-> now])}

\* addToPasswordHistory(passwordId, encryptedPassword): the tables it can leave
addToPasswordHistory(h, passwordId, encryptedPassword) ==
    LET added == Append(h, [password_id |-> passwordId,
                            encrypted_old_password |-> encryptedPassword,
                            changed_at |-> now])
    IN  {KeepRows(added, K \cup {i \in 1..Len(added) : added[i].password_id # passwordId}, 1) :
            K \in KeptHistory(added, passwordId)}

\* deletePassword(id): the history tables it can leave
deletePasswordHistory(rows, h, id) ==
    IF \E r \in rows : r.id = id
    THEN {CascadeHistory(h2, id) :
            h2 \in addToPasswordHistory(h, id, (CHOOSE r \in rows : r.id = id).encrypted_password)}
    ELSE {h}

\* the UPDATE without its WHERE clause
updateEveryUsage(rows, id) ==
    {[r EXCEPT !.last_used = Some(now), !.use_count = r.use_count + 1] : r \in rows}

\* UPDATE passwords SET last_used = CURRENT_TIMESTAMP, use_count = use_count + 1
updatePasswordUsage(rows, id) ==
    {IF r.id = id THEN [r EXCEPT !.last_used = Some(now), !.use_count = r.use_count + 1]
                  ELSE r : r \in rows}

ToLowerChar(c) ==
    IF c \in UpperChars
    THEN CHOOSE l \in LowerChars :
            \E i \in 1..26 : /\ <<"A", "B", "C", "D", "E", "F", "G", "H", "I", "J", "K", "L", "M",
                                  "N", "O", "P", "Q", "R", "S", "T", "U", "V", "W", "X", "Y", "Z">>[i] = c
                             /\ <<"a", "b", "c", "d", "e", "f", "g", "h", "i", "j", "k", "l", "m",
                                  "n", "o", "p", "q", "r", "s", "t", "u", "v", "w", "x", "y", "z">>[i] = l
    ELSE c

\* text LIKE pattern: % stands for any run of characters, _ for any one
\* character, and letters match in either case
RECURSIVE LikeMatch(_, _)
LikeMatch(text, pattern) ==
    IF pattern = <<>> THEN text = <<>>
    ELSE IF Head(pattern) = "%"
    THEN LikeMatch(text, Tail(pattern)) \/ (text # <<>> /\ LikeMatch(Tail(text), pattern))
    ELSE /\ text # <<>>
         /\ Head(pattern) = "_" \/ ToLowerChar(Head(text)) = ToLowerChar(Head(pattern))
         /\ LikeMatch(Tail(text), Tail(pattern))

\* text LIKE `%${pattern}%`
Like(text, pattern) == LikeMatch(text, <<"%">> \o pattern \o <<"%">>)

LastUsedKey(r) == IF r.last_used = None THEN 0 - 1 ELSE r.last_used[1]

\* a sorts strictly before b under ORDER BY last_used DESC, modified_at DESC
ByUseThenModified(a, b) ==
    \/ LastUsedKey(a) > LastUsedKey(b)
    \/ LastUsedKey(a) = LastUsedKey(b) /\ a.modified_at > b.modified_at

\* a sorts strictly before b under ORDER BY modified_at DESC
ByModified(a, b) == a.modified_at > b.modified_at

\* the orders in which a query may return the rows S
Ordered(S, Before(_, _)) ==
    {p \in [1..Cardinality(S) -> S] :
        /\ \A i, j \in 1..Cardinality(S) : i # j => p[i] # p[j]
        /\ \A i, j \in 1..Cardinality(S) : i < j => ~Before(p[j], p[i])}

\* getPasswords(domain): the row sequences the query may return
getPasswords(domain) ==
    IF domain # None
    THEN Ordered({r \in passwords : Like(r.domain, domain)}, ByUseThenModified)
    ELSE Ordered(passwords, ByModified)

\* searchPasswords(query)
searchPasswords(query) ==
    Ordered({r \in passwords : Like(r.domain, query) \/ Like(r.username, query)},
            ByUseThenModified)

\* saveSecureNote(noteData): table secure_notes afterwards
saveSecureNote(rows, noteData) ==
    {r \in rows : r.id # noteData.id}
    \cup {[id |-> noteData.id, title |-> noteData.title,
           encrypted_content |-> noteData.encrypted_content,
           created_at |-> now, modified_at |-> now]}

\* getSecureNotes()
getSecureNotes == Ordered(secure_notes, ByModified)

\* findDuplicatePasswords(): rows grouped by equal encrypted_password
findDuplicatePasswords ==
    {g \in SUBSET passwords :
        /\ Cardinality(g) > 1
        /\ \E b \in {r.encrypted_password : r \in passwords} :
              g = {r \in passwords : r.encrypted_password = b}}

\* getAllTags(): tags.forEach throws, and the row is skipped, unless the
\* column parses to an array
getAllTags ==
    UNION {{r.tags.value[i] : i \in 1..Len(r.tags.value)} :
            r \in {q \in passwords : Parse(q.tags).depth = 0}}

\* getStatistics(); no row is used more than 7 days before the clock stops
getStatistics ==
    [totalPasswords |-> Cardinality(passwords),
     totalNotes |-> Cardinality(secure_notes),
     recentlyUsed |-> Cardinality({r \in passwords : r.last_used # None}),
     duplicateCount |-> Cardinality(findDuplicatePasswords),
     allTags |-> getAllTags]

----------------------------------------------------------------------------
(* PasswordEncryption: entries.                                            *)

\* encryptPasswordEntry throws: encrypt() is called without a key
encryptEntryThrows(passwordEntry) ==
    masterKey = None /\ (passwordEntry.password # None \/ passwordEntry.notes # None)

\* encryptPasswordEntry(passwordEntry), the IVs drawn being ivP and ivN
encryptPasswordEntry(passwordEntry, id, ivP, ivN) ==
    [id |-> id,
     domain |-> passwordEntry.domain,
     username |-> passwordEntry.username,
     favicon |-> passwordEntry.favicon,
     tags |-> passwordEntry.tags,
     encrypted_password |->
        IF passwordEntry.password # None
        THEN Some(encrypt(masterKey[1], ivP, passwordEntry.password)) ELSE None,
     encrypted_notes |->
        IF passwordEntry.notes # None
        THEN Some(encrypt(masterKey[1], ivN, passwordEntry.notes)) ELSE None]

decryptEntryThrows(encryptedEntry) ==
    \/ decryptThrows(masterKey, encryptedEntry.encrypted_password)
    \/ /\ encryptedEntry.encrypted_notes # None
       /\ decryptThrows(masterKey, encryptedEntry.encrypted_notes[1])

decryptPasswordEntry(encryptedEntry) ==
    [id |-> encryptedEntry.id,
     domain |-> encryptedEntry.domain,
     username |-> encryptedEntry.username,
     favicon |-> encryptedEntry.favicon,
     tags |-> encryptedEntry.tags,
     created_at |-> encryptedEntry.created_at,
     modified_at |-> encryptedEntry.modified_at,
     last_used |-> encryptedEntry.last_used,
     use_count |-> encryptedEntry.use_count,
     password |-> decrypt(masterKey, encryptedEntry.encrypted_password),
     notes |-> IF encryptedEntry.encrypted_notes # None
               THEN decrypt(masterKey, encryptedEntry.encrypted_notes[1]) ELSE None]

\* rows.map(decryptPasswordEntry or null).filter(entry => entry !== null)
DecryptAll(rows) ==
    LET ok == KeepRows(rows, {i \in 1..Len(rows) : ~decryptEntryThrows(rows[i])}, 1)
    IN  [i \in 1..Len(ok) |-> decryptPasswordEntry(ok[i])]


----------------------------------------------------------------------------
(* PasswordManager: vault operations.                                      *)

\* if (this.isLocked) return { success: false, error: 'Password manager is locked' }
Refused(op) ==
    /\ result' = Ret(op, FALSE, LockedError, <<>>)
    /\ UNCHANGED <<sessionVars, keyVars, tables, envVars>>

\* this.resetAutoLockTimer() at the head of the try block
Touch ==
    /\ autoLockTimer' = resetAutoLockTimer
    /\ UNCHANGED isLocked

\* the catch block: { success: false, error: error.message }
Threw(op) == result' = Ret(op, FALSE, ThrownError, <<>>)

addPassword(passwordData, uuid, ivP, ivN) ==
    IF isLocked THEN Refused("addPassword")
    ELSE LET id == IF passwordData.id # None THEN passwordData.id[1] ELSE uuid
             encrypted == encryptPasswordEntry(passwordData, id, ivP, ivN)
         IN  /\ Touch
             /\ IF encryptEntryThrows(passwordData) \/ ~dbOpen \/ savePasswordThrows(encrypted)
                THEN /\ Threw("addPassword")
                     /\ UNCHANGED <<passwords, password_history>>
                ELSE /\ passwords' = savePassword(passwords, encrypted)
                     /\ password_history' =
                            savePasswordHistory(passwords, password_history, encrypted)
                     /\ result' = Ret("addPassword", TRUE, "", <<id>>)
             /\ UNCHANGED <<keyVars, envVars, password_settings, secure_notes>>

getPasswordsOp(domain) ==
    IF isLocked THEN Refused("getPasswords")
    ELSE /\ Touch
         /\ IF ~dbOpen THEN Threw("getPasswords")
            ELSE \E rows \in getPasswords(domain) :
                    result' = Ret("getPasswords", TRUE, "", DecryptAll(rows))
         /\ UNCHANGED <<keyVars, envVars, tables>>

getPasswordOp(id) ==
    IF isLocked THEN Refused("getPassword")
    ELSE /\ Touch
         /\ IF ~dbOpen
            THEN Threw("getPassword") /\ UNCHANGED passwords
            ELSE IF getPassword(id) = {}
            THEN /\ result' = Ret("getPassword", FALSE, NotFoundError, <<>>)
                 /\ UNCHANGED passwords
            ELSE LET encrypted == CHOOSE r \in passwords : r.id = id
                 IN  IF decryptEntryThrows(encrypted)
                     THEN Threw("getPassword") /\ UNCHANGED passwords
                     ELSE /\ encrypted.use_count < MaxUse
                          /\ passwords' = updatePasswordUsage(passwords, id)
                          /\ result' = Ret("getPassword", TRUE, "",
                                           <<decryptPasswordEntry(encrypted)>>)
         /\ UNCHANGED <<keyVars, envVars, password_settings, password_history,
                        secure_notes>>

updatePassword(id, passwordData, ivP, ivN) ==
    IF isLocked THEN Refused("updatePassword")
    ELSE /\ Touch
         /\ IF ~dbOpen
            THEN Threw("updatePassword") /\ UNCHANGED <<passwords, password_history>>
            ELSE IF getPassword(id) = {}
            THEN /\ result' = Ret("updatePassword", FALSE, NotFoundError, <<>>)
                 /\ UNCHANGED <<passwords, password_history>>
            ELSE LET existing == CHOOSE r \in passwords : r.id = id
                     encrypted == encryptPasswordEntry(passwordData, id, ivP, ivN)
                 IN  \E h \in (IF passwordData.password # None
                               THEN addToPasswordHistory(password_history, id,
                                                         existing.encrypted_password)
                               ELSE {password_history}) :
                        IF encryptEntryThrows(passwordData) \/ savePasswordThrows(encrypted)
                        THEN /\ Threw("updatePassword")
                             /\ password_history' = h
                             /\ UNCHANGED passwords
                        ELSE /\ passwords' = savePassword(passwords, encrypted)
                             /\ password_history' = savePasswordHistory(passwords, h, encrypted)
                             /\ result' = Ret("updatePassword", TRUE, "", <<>>)
         /\ UNCHANGED <<keyVars, envVars, password_settings, secure_notes>>

\* deletePassword without the isLocked check
deleteUngated(id) ==
    /\ Touch
    /\ IF ~dbOpen
       THEN Threw("deletePassword") /\ UNCHANGED <<passwords, password_history>>
       ELSE /\ \E h \in deletePasswordHistory(passwords, password_history, id) :
                   password_history' = h
            /\ passwords' = {r \in passwords : r.id # id}
            /\ result' = Ret("deletePassword", TRUE, "", <<>>)
    /\ UNCHANGED <<keyVars, envVars, password_settings, secure_notes>>

deletePassword(id) ==
    IF isLocked THEN Refused("deletePassword")
    ELSE /\ Touch
         /\ IF ~dbOpen
            THEN Threw("deletePassword") /\ UNCHANGED <<passwords, password_history>>
            ELSE /\ \E h \in deletePasswordHistory(passwords, password_history, id) :
                        password_history' = h
                 /\ passwords' = {r \in passwords : r.id # id}
                 /\ result' = Ret("deletePassword", TRUE, "", <<>>)
         /\ UNCHANGED <<keyVars, envVars, password_settings, secure_notes>>

searchPasswordsOp(query) ==
    IF isLocked THEN Refused("searchPasswords")
    ELSE /\ Touch
         /\ IF ~dbOpen THEN Threw("searchPasswords")
            ELSE \E rows \in searchPasswords(query) :
                    result' = Ret("searchPasswords", TRUE, "", DecryptAll(rows))
         /\ UNCHANGED <<keyVars, envVars, tables>>

\* noteData.content undefined makes cipher.update throw
addSecureNote(noteData, uuid, iv) ==
    IF isLocked THEN Refused("addSecureNote")
    ELSE LET id == IF noteData.id # None THEN noteData.id[1] ELSE uuid
         IN  /\ Touch
             /\ IF masterKey = None \/ noteData.content = None \/ ~dbOpen
                   \/ noteData.title = None
                THEN Threw("addSecureNote") /\ UNCHANGED secure_notes
                ELSE /\ secure_notes' =
                            saveSecureNote(secure_notes,
                                [id |-> id, title |-> noteData.title,
                                 encrypted_content |->
                                    encrypt(masterKey[1], iv, noteData.content)])
                     /\ result' = Ret("addSecureNote", TRUE, "", <<id>>)
             /\ UNCHANGED <<keyVars, envVars, password_settings, passwords,
                            password_history>>

DecryptNote(note) ==
    [id |-> note.id, title |-> note.title, encrypted_content |-> note.encrypted_content,
     created_at |-> note.created_at, modified_at |-> note.modified_at,
     content |-> decrypt(masterKey, note.encrypted_content)]

getSecureNotesOp ==
    IF isLocked THEN Refused("getSecureNotes")
    ELSE /\ Touch
         /\ IF ~dbOpen THEN Threw("getSecureNotes")
            ELSE \E rows \in getSecureNotes :
                    IF \E i \in 1..Len(rows) : decryptThrows(masterKey, rows[i].encrypted_content)
                    THEN Threw("getSecureNotes")
                    ELSE result' = Ret("getSecureNotes", TRUE, "",
                                       [i \in 1..Len(rows) |-> DecryptNote(rows[i])])
         /\ UNCHANGED <<keyVars, envVars, tables>>

deleteSecureNote(id) ==
    IF isLocked THEN Refused("deleteSecureNote")
    ELSE /\ Touch
         /\ IF ~dbOpen
            THEN Threw("deleteSecureNote") /\ UNCHANGED secure_notes
            ELSE /\ secure_notes' = {r \in secure_notes : r.id # id}
                 /\ result' = Ret("deleteSecureNote", TRUE, "", <<>>)
         /\ UNCHANGED <<keyVars, envVars, password_settings, passwords, password_history>>

getStatisticsOp ==
    IF isLocked THEN Refused("getStatistics")
    ELSE /\ Touch
         /\ IF ~dbOpen THEN Threw("getStatistics")
            ELSE result' = Ret("getStatistics", TRUE, "", <<getStatistics>>)
         /\ UNCHANGED <<keyVars, envVars, tables>>

\* findDuplicatePasswords(): each group the database reports, decrypted, the
\* entries that fail to decrypt dropped
findDuplicatePasswordsOp ==
    IF isLocked THEN Refused("findDuplicatePasswords")
    ELSE /\ Touch
         /\ IF ~dbOpen THEN Threw("findDuplicatePasswords")
            ELSE result' = Ret("findDuplicatePasswords", TRUE, "",
                    <<{{decryptPasswordEntry(r) :
                            r \in {q \in g : ~decryptEntryThrows(q)}} :
                        g \in findDuplicatePasswords}>>)
         /\ UNCHANGED <<keyVars, envVars, tables>>

\* database.exportData(): the bundles it can return
exportData ==
    {[settings |-> password_settings, passwords |-> p, notes |-> n, exportDate |-> now] :
        p \in getPasswords(None), n \in getSecureNotes}

exportDataOp ==
    IF isLocked THEN Refused("exportData")
    ELSE /\ Touch
         /\ IF ~dbOpen THEN Threw("exportData")
            ELSE \E data \in exportData : result' = Ret("exportData", TRUE, "", <<data>>)
         /\ UNCHANGED <<keyVars, envVars, tables>>

\* a row of a bundle as savePassword reads it
ImportedPassword(p) ==
    [id |-> p.id, domain |-> p.domain, username |-> p.username, favicon |-> p.favicon,
     tags |-> p.tags, encrypted_password |-> Some(p.encrypted_password),
     encrypted_notes |-> p.encrypted_notes]

\* data.passwords.forEach(p => this.savePassword(p)), from row i on
RECURSIVE ImportPasswords(_, _, _)
ImportPasswords(rows, list, i) ==
    IF i > Len(list) THEN rows
    ELSE ImportPasswords(savePassword(rows, ImportedPassword(list[i])), list, i + 1)

RECURSIVE ImportHistory(_, _, _, _)
ImportHistory(rows, h, list, i) ==
    IF i > Len(list) THEN h
    ELSE ImportHistory(savePassword(rows, ImportedPassword(list[i])),
                       savePasswordHistory(rows, h, ImportedPassword(list[i])), list, i + 1)

\* data.notes.forEach(n => this.saveSecureNote(n)), from row i on
RECURSIVE ImportNotes(_, _, _)
ImportNotes(rows, list, i) ==
    IF i > Len(list) THEN rows
    ELSE ImportNotes(saveSecureNote(rows, list[i]), list, i + 1)

importData(data) ==
    IF isLocked THEN Refused("importData")
    ELSE /\ Touch
         /\ IF ~dbOpen /\ (Len(data.passwords) > 0 \/ Len(data.notes) > 0)
            THEN Threw("importData") /\ UNCHANGED <<passwords, password_history, secure_notes>>
            ELSE /\ passwords' = ImportPasswords(passwords, data.passwords, 1)
                 /\ password_history' =
                        ImportHistory(passwords, password_history, data.passwords, 1)
                 /\ secure_notes' = ImportNotes(secure_notes, data.notes, 1)
                 /\ result' = Ret("importData", TRUE, "",
                                  <<[passwordsImported |-> Len(data.passwords),
                                     notesImported |-> Len(data.notes)]>>)
         /\ UNCHANGED <<keyVars, envVars, password_settings>>


----------------------------------------------------------------------------
(* The environment: what callers pass in.                                  *)

dExample == <<"e", "x", ".", "c", "o", "m">>
uAlice == <<"a", "@", "b", ".", "c", "o", "m">>
pHunter2 == <<"h", "u", "n", "t", "e", "r", "2">>
pS3cret == <<"s", "3", "c", "r", "e", "t">>
tTitle == <<"w", "i", "f", "i">>

\* uuidv4() returns one of these, never one the store still refers to
UUIDs == AllIds \cup NoteIds
FreshUUIDs ==
    (UUIDs \ NoteIds)
    \ ({r.id : r \in passwords}
       \cup {password_history[i].password_id : i \in 1..Len(password_history)})
FreshNoteUUIDs == (UUIDs \cap NoteIds) \ {r.id : r \in secure_notes}

Entry(id, domain, password) ==
    [id |-> id, domain |-> domain, username |-> uAlice, password |-> password,
     notes |-> None, favicon |-> None, tags |-> JsArray(<<>>)]

NewEntries == {Entry(None, dExample, pHunter2)}
NewNotes == {[id |-> None, title |-> tTitle, content |-> pS3cret]}

\* bundles handed to importData: what exportData returned, while no tags
\* column is more than MaxJsonDepth stringifications deep
Bundles ==
    {data \in exportData :
        \A i \in 1..Len(data.passwords) : data.passwords[i].tags.depth < MaxJsonDepth}

----------------------------------------------------------------------------
(* The interface: one call of an IPC handler, with the history variables   *)
(* it advances.                                                            *)

ghosts == <<idle, setupPassword, stored, pushed>>

\* a gated operation restarts the idle count when it finds the session unlocked
Used == idle' = IF isLocked THEN idle ELSE 0

CallSetup(pw, s, iv) ==
    /\ setupMasterPassword(pw, s, iv)
    /\ setupPassword' = IF result'.success THEN Some(pw) ELSE setupPassword
    /\ idle' = IF result'.success THEN 0 ELSE idle
    /\ UNCHANGED <<stored, pushed, helperVars>>

CallUnlock(pw) ==
    /\ unlock(pw)
    /\ idle' = IF result'.success THEN 0 ELSE idle
    /\ UNCHANGED <<setupPassword, stored, pushed, helperVars>>

CallLock == lock /\ UNCHANGED <<ghosts, helperVars>>

Destroy == destroy /\ UNCHANGED <<ghosts, helperVars>>

AutoLockFires == autoLockCallback /\ UNCHANGED <<ghosts, helperVars>>

\* one tick of the clock; a timer whose delay is over runs before the next tick
Tick ==
    /\ now < MaxTime
    /\ autoLockTimer # Some(0)
    /\ now' = now + 1
    /\ autoLockTimer' = IF autoLockTimer = None THEN None
                                                ELSE Some(autoLockTimer[1] - 1)
    /\ idle' = Min(idle + 1, autoLockDelay + 1)
    /\ UNCHANGED <<isLocked, keyVars, tables, dbOpen, foreignKeys, result,
                   setupPassword, stored, pushed, helperVars>>

CallAdd(d, uuid, ivP, ivN) ==
    /\ addPassword(d, uuid, ivP, ivN)
    /\ Used
    /\ stored' = IF result'.success
                 THEN {e \in stored : e.id # result'.data[1]}
                      \cup {[id |-> result'.data[1], domain |-> d.domain,
                             password |-> d.password]}
                 ELSE stored
    /\ pushed' = IF result'.success THEN [pushed EXCEPT ![result'.data[1]] = <<>>]
                                    ELSE pushed
    /\ UNCHANGED <<setupPassword, helperVars>>

CallUpdate(id, d, ivP, ivN) ==
    /\ Len(pushed[id]) < MaxUpdates
    /\ updatePassword(id, d, ivP, ivN)
    /\ Used
    /\ stored' = IF result'.success THEN {e \in stored : e.id # id} ELSE stored
    /\ pushed' = IF result'.success /\ d.password # None
                 THEN [pushed EXCEPT ![id] =
                        Append(@, (CHOOSE r \in passwords : r.id = id).encrypted_password)]
                 ELSE pushed
    /\ UNCHANGED <<setupPassword, helperVars>>

CallDelete(id) ==
    /\ deletePassword(id)
    /\ Used
    /\ stored' = IF result'.success THEN {e \in stored : e.id # id} ELSE stored
    /\ pushed' = IF result'.success THEN [pushed EXCEPT ![id] = <<>>] ELSE pushed
    /\ UNCHANGED <<setupPassword, helperVars>>

\* a call that reads, or writes no credential
Call(op) == op /\ Used /\ UNCHANGED <<setupPassword, stored, pushed, helperVars>>

----------------------------------------------------------------------------
(* Spec: the session state machine with every master password, salt and    *)
(* IV, over a store of one credential; the clock stands.                   *)

SetupMasterPassword ==
    \E pw \in MasterPasswords, s \in Salts, iv \in IVs : CallSetup(pw, s, iv)
Unlock == \E pw \in MasterPasswords : CallUnlock(pw)
Lock == CallLock
AddPassword == \E d \in NewEntries, id \in FreshUUIDs : CallAdd(d, id, 1, 1)
GetPasswords == Call(getPasswordsOp(None))
DeletePassword == \E id \in AllIds : CallDelete(id)
AddSecureNote == \E n \in NewNotes, id \in FreshNoteUUIDs : Call(addSecureNote(n, id, 1))
ImportData == \E data \in Bundles : Call(importData(data))

Next ==
    \/ SetupMasterPassword
    \/ Unlock
    \/ Lock
    \/ Destroy
    \/ AddPassword
    \/ GetPasswords
    \/ DeletePassword
    \/ ImportData

Spec == Init /\ [][Next]_vars

----------------------------------------------------------------------------
(* SpecIdle: the idle timer under a running clock, with one master         *)
(* password.                                                               *)

IdleSetup == CallSetup(pwTroubador, <<10, 255>>, 1)
IdleUnlock == \E pw \in {pwTroubador, pwWrong} : CallUnlock(pw)
WeakSetup == CallSetup(pwWrong, <<10, 255>>, 1)
HasMasterPassword == hasMasterPasswordOp /\ UNCHANGED <<ghosts, helperVars>>

NextIdle ==
    \/ IdleSetup
    \/ WeakSetup
    \/ HasMasterPassword
    \/ IdleUnlock
    \/ Lock
    \/ Destroy
    \/ Tick
    \/ AutoLockFires
    \/ AddPassword
    \/ GetPasswords

SpecIdle == Init /\ [][NextIdle]_vars


----------------------------------------------------------------------------
(* SpecGate: every gated operation, on a locked and on an unlocked         *)
(* session, over a store the unlocked session has filled.                  *)

UpdatedEntries == {Entry(None, dExample, pS3cret)}

GetPassword == \E id \in AllIds : Call(getPasswordOp(id))
UpdatePassword ==
    \E id \in AllIds, d \in UpdatedEntries :
        Len(pushed[id]) < MaxGateUpdates /\ CallUpdate(id, d, 1, 1)
SearchPasswords == Call(searchPasswordsOp(dExample))
GetSecureNotes == Call(getSecureNotesOp)
DeleteSecureNote == \E id \in NoteIds : Call(deleteSecureNote(id))
GetStatistics == Call(getStatisticsOp)
ExportData == Call(exportDataOp)

GatedCall ==
    \/ AddPassword
    \/ GetPasswords
    \/ GetPassword
    \/ UpdatePassword
    \/ DeletePassword
    \/ SearchPasswords
    \/ AddSecureNote
    \/ GetSecureNotes
    \/ DeleteSecureNote
    \/ GetStatistics
    \/ ExportData
    \/ ImportData

NextGate ==
    \/ IdleSetup
    \/ IdleUnlock
    \/ Lock
    \/ GatedCall

SpecGate == Init /\ [][NextGate]_vars

----------------------------------------------------------------------------
(* SpecHistory: one credential, updated and deleted under a running clock. *)

\* an update that names no domain: savePassword throws
PartialEntries == {Entry(None, None, pS3cret)}

HistoryUpdate ==
    \E id \in AllIds, d \in UpdatedEntries \cup PartialEntries : CallUpdate(id, d, 1, 1)

NextHistory ==
    \/ IdleSetup
    \/ Tick
    \/ AddPassword
    \/ HistoryUpdate
    \/ DeletePassword

SpecHistory == Init /\ [][NextHistory]_vars

----------------------------------------------------------------------------
(* SpecImport: a store written by add, update, addSecureNote and by        *)
(* importData, which is handed bundles exportData returned and bundles     *)
(* written by hand.                                                        *)

\* the bytes of a string that was never encrypted
Utf8(text) == Whole([utf8 |-> text], Len(text))

\* a backup file edited by hand: the password column holds the password
ForeignBundles ==
    {[settings |-> <<>>,
      passwords |-> <<[id |-> "u2", domain |-> dExample, username |-> uAlice,
                       encrypted_password |-> Utf8(pHunter2), encrypted_notes |-> None,
                       favicon |-> None, tags |-> JsArray(<<>>)]>>,
      notes |-> <<>>,
      exportDate |-> 0]}

ImportForeign == \E data \in ForeignBundles : Call(importData(data))
ImportUnlock == CallUnlock(pwTroubador)

NextImport ==
    \/ IdleSetup
    \/ ImportUnlock
    \/ Lock
    \/ AddPassword
    \/ UpdatePassword
    \/ DeletePassword
    \/ GetPasswords
    \/ SearchPasswords
    \/ AddSecureNote
    \/ ImportData
    \/ ImportForeign

SpecImport == Init /\ [][NextImport]_vars

----------------------------------------------------------------------------
(* SpecBackup: a bundle exportData returned is kept outside the program    *)
(* and handed to importData later.                                         *)

ExportBackup ==
    /\ exportDataOp
    /\ Used
    /\ IF result'.success
       THEN /\ wire' = Some(result'.data[1])
            /\ sealed' = Some([passwords |-> passwords,
                               password_history |-> password_history,
                               secure_notes |-> secure_notes])
       ELSE UNCHANGED <<wire, sealed>>
    /\ UNCHANGED <<setupPassword, stored, pushed, arg, walletVars>>

ImportBackup ==
    /\ wire # None
    /\ \A i \in 1..Len(wire[1].passwords) :
          wire[1].passwords[i].tags.depth < MaxJsonDepth
    /\ Call(importData(wire[1]))

NextBackup ==
    \/ IdleSetup
    \/ AddPassword
    \/ GetPassword
    \/ DeletePassword
    \/ AddSecureNote
    \/ DeleteSecureNote
    \/ ExportBackup
    \/ ImportBackup

SpecBackup == Init /\ [][NextBackup]_vars

----------------------------------------------------------------------------
(* SpecStore: a store of two credentials, each added with either password  *)
(* and either IV.                                                          *)

\* uuidv4() for a credential of the two-credential store
FreshStoreIds ==
    StoreIds \ ({r.id : r \in passwords}
                \cup {password_history[i].password_id : i \in 1..Len(password_history)})

AddOne ==
    \E pw \in {pHunter2, pS3cret}, id \in FreshStoreIds, iv \in IVs :
        CallAdd(Entry(None, dExample, pw), id, iv, iv)
GetOne == \E id \in StoreIds : Call(getPasswordOp(id))
DeleteOne == \E id \in StoreIds : CallDelete(id)
FindDuplicates == Call(findDuplicatePasswordsOp)

NextStore ==
    \/ IdleSetup
    \/ AddOne
    \/ GetOne
    \/ DeleteOne
    \/ FindDuplicates
    \/ GetStatistics

SpecStore == Init /\ [][NextStore]_vars

----------------------------------------------------------------------------
(* SpecOrder: two credentials of different domains are added and used at   *)
(* different times, and listed with and without a filter, until the timer  *)
(* locks the session.                                                      *)

dOther == <<"b", ".", "i", "o">>
ListedDomain(id) == IF id = "u1" THEN dExample ELSE dOther

\* filters: a substring in the other case, and one with the LIKE wildcard _
fEX == <<"E", "X">>
fWild == <<"e", "_", ".">>
Filters == {fEX, fWild}

AddListed ==
    \E id \in FreshStoreIds :
        CallAdd(Entry(None, ListedDomain(id), pHunter2), id, 1, 1)
ListFiltered(domain) == Call(getPasswordsOp(domain))

NextOrder ==
    \/ IdleSetup
    \/ Tick
    \/ AutoLockFires
    \/ AddListed
    \/ GetOne
    \/ GetPasswords
    \/ \E domain \in Filters : ListFiltered(domain)

SpecOrder == Init /\ [][NextOrder]_vars

----------------------------------------------------------------------------
(* SpecIds: every operation that writes the table passwords, over two ids: *)
(* add with and without an id of the caller, update, delete, and import of *)
(* a bundle exported earlier.                                              *)

\* addPassword with passwordData.id set by the caller
AddAs ==
    \E id \in StoreIds, uuid \in UUIDs :
        CallAdd(Entry(Some(id), dExample, pS3cret), uuid, 1, 1)
UpdateOne ==
    \E id \in StoreIds, d \in UpdatedEntries :
        Len(pushed[id]) < MaxGateUpdates /\ CallUpdate(id, d, 1, 1)

MaxStoreHistory == 2

\* updates and deletes while the history table is short, and one backup
UpdateShort == Len(password_history) < MaxStoreHistory /\ UpdateOne
DeleteShort == Len(password_history) < MaxStoreHistory /\ DeleteOne
ExportOnce == wire = None /\ ExportBackup

NextIds ==
    \/ IdleSetup
    \/ AddListed
    \/ AddAs
    \/ UpdateShort
    \/ DeleteShort
    \/ ExportOnce
    \/ ImportBackup

SpecIds == Init /\ [][NextIds]_vars

----------------------------------------------------------------------------
(* SpecCrypto: a PasswordEncryption object on its own; what encrypt()      *)
(* returns reaches decrypt() as it is or altered on the way.               *)

Plaintexts == {<<>>, pHunter2, pS3cret}
CryptoPasswords == {pwTroubador, pwWrong}
CryptoKeys == {deriveKey(pw, s) : pw \in CryptoPasswords, s \in Salts}

\* initialize(masterPassword, salt)
CryptoInitialize ==
    \E pw \in CryptoPasswords, s \in Salts :
        /\ salt' = Some(s)
        /\ masterKey' = Some(deriveKey(pw, s))
        /\ droppedBuffer' = ReplacedBuffer
        /\ result' = Ret("initialize", TRUE, "", <<>>)
        /\ UNCHANGED <<sessionVars, tables, envVars, ghosts, helperVars>>

\* PasswordEncryption.lock()
CryptoLock ==
    /\ EncryptionLock
    /\ result' = Ret("encryption.lock", TRUE, "", <<>>)
    /\ UNCHANGED <<sessionVars, tables, envVars, ghosts, helperVars>>

\* encrypt(plaintext)
CryptoEncrypt ==
    \E plaintext \in Plaintexts, iv \in IVs :
        /\ IF masterKey = None
           THEN /\ result' = Ret("encrypt", FALSE, ThrownError, <<>>)
                /\ UNCHANGED <<sealed, wire>>
           ELSE LET blob == encrypt(masterKey[1], iv, plaintext)
                IN  /\ wire' = Some(blob)
                    /\ sealed' = Some([key |-> masterKey[1], plaintext |-> plaintext,
                                       blob |-> blob])
                    /\ result' = Ret("encrypt", TRUE, "", <<blob>>)
        /\ UNCHANGED <<sessionVars, keyVars, tables, envVars, ghosts, arg, walletVars>>

\* one byte of buf replaced by another
FlipByte(buf, j) ==
    Slice(buf, 0, j)
    \o <<[from |-> 0, len |-> 1, val |-> [flip |-> Slice(buf, j, j + 1)]]>>
    \o Slice(buf, j + 1, BufferLength(buf))

\* the altered versions of a blob: another nonce, the tag or the ciphertext
\* of another encryption, a changed byte, a missing last byte
Altered(blob) ==
    LET end == BufferLength(blob)
        others == {encrypt(k, iv, pt) : k \in CryptoKeys, iv \in IVs, pt \in Plaintexts}
    IN  ({generateIV(iv) \o Slice(blob, ivLength, end) : iv \in IVs}
         \cup {SliceIV(blob) \o SliceTag(o) \o SliceEncrypted(blob) : o \in others}
         \cup {SliceIV(blob) \o SliceTag(blob) \o SliceEncrypted(o) : o \in others}
         \cup {FlipByte(blob, j) :
                 j \in {0, ivLength - 1, ivLength, ivLength + tagLength - 1, end - 1}}
         \cup {Slice(blob, 0, end - 1)})
        \ {blob}

Tamper ==
    /\ wire # None
    /\ sealed # None
    /\ wire[1] = sealed[1].blob
    /\ \E altered \in Altered(wire[1]) : wire' = Some(altered)
    /\ UNCHANGED <<sessionVars, keyVars, tables, envVars, ghosts, sealed, arg, result,
                   walletVars>>

\* decrypt(encryptedData) of the blob on the wire
CryptoDecrypt ==
    /\ wire # None
    /\ result' = IF decryptThrows(masterKey, wire[1])
                 THEN Ret("decrypt", FALSE, ThrownError, <<>>)
                 ELSE Ret("decrypt", TRUE, "", <<decrypt(masterKey, wire[1])>>)
    /\ UNCHANGED <<sessionVars, keyVars, tables, envVars, ghosts, helperVars>>

NextCrypto ==
    \/ CryptoInitialize
    \/ CryptoLock
    \/ CryptoEncrypt
    \/ Tamper
    \/ CryptoDecrypt

SpecCrypto == Init /\ [][NextCrypto]_vars

----------------------------------------------------------------------------
(* SpecUnlock: unlock attempts against settings that were damaged in the   *)
(* database file after setup wrote them.                                   *)

\* what a damaged row may hold in place of its salt and verifier: the salt
\* another one, cut short or empty; the verifier with a changed byte in the
\* nonce, the tag or the ciphertext, cut short, empty, or a blob that
\* encrypts something else under the same key
DamagedSettings(row) ==
    LET v == row.verification_hash
        key == deriveKey(pwTroubador, FromHex(row.salt))
    IN  {[row EXCEPT !.salt = h] :
            h \in ({ToHex(b) : b \in Salts} \cup {SubSeq(row.salt, 1, 2), <<>>})
                   \ {row.salt}}
        \cup {[row EXCEPT !.verification_hash = w] :
                 w \in {FlipByte(v, j) : j \in {0, ivLength, ivLength + tagLength}}
                        \cup {Slice(v, 0, BufferLength(v) - 1), <<>>,
                               encrypt(key, 1, pHunter2)}}

Damage ==
    /\ hasMasterPassword
    /\ \E s \in Salts, iv \in IVs :
          /\ password_settings[1].salt = ToHex(s)
          /\ password_settings[1].verification_hash =
                encrypt(deriveKey(pwTroubador, s), iv, verificationData)
    /\ \E row \in DamagedSettings(password_settings[1]) :
          password_settings' = <<row>>
    /\ UNCHANGED <<sessionVars, keyVars, passwords, password_history, secure_notes,
                   envVars, result, ghosts, helperVars>>

NextUnlock ==
    \/ IdleSetup
    \/ IdleUnlock
    \/ Lock
    \/ Tick
    \/ AutoLockFires
    \/ Damage

SpecUnlock == Init /\ [][NextUnlock]_vars

----------------------------------------------------------------------------
(* SpecHelpers: the two handlers that need no session, each applied to the *)
(* argument the caller passes.                                             *)

MaxPick == 3
Seeds == [start : 0..MaxPick, step : 0..MaxPick]

GenerateOptions ==
    [length : {8, 20, 64}, uppercase : BOOLEAN, lowercase : BOOLEAN, numbers : BOOLEAN,
     symbols : BOOLEAN, excludeSimilar : BOOLEAN, excludeAmbiguous : BOOLEAN]
    \cup {[length |-> 20],
          [length |-> 20, uppercase |-> TRUE, lowercase |-> TRUE, numbers |-> TRUE,
           symbols |-> FALSE]}

\* passwords made of a number of characters of each class, with or without
\* a run of three equal characters at the end
StrengthInputs ==
    {SubSeq(ClassChars.lowercase, 1, nl) \o SubSeq(ClassChars.uppercase, 1, nu)
        \o SubSeq(ClassChars.numbers, 1, nd) \o SubSeq(ClassChars.symbols, 1, ns)
        \o run :
        nl \in {0, 1, 4, 8}, nu \in {0, 1, 4, 8}, nd \in {0, 1, 4, 8}, ns \in {0, 1, 4, 8},
        run \in {<<>>, <<"a", "a", "a">>, <<"7", "7", "7">>, <<"\n", "\n", "\n">>}}

InitHelpers ==
    /\ Constructed
    /\ arg \in {Some([options |-> o]) : o \in GenerateOptions}
               \cup {Some([password |-> p]) : p \in StrengthInputs}

GeneratePassword ==
    /\ "options" \in DOMAIN arg[1]
    /\ \E seed \in Seeds : generatePasswordOp(arg[1].options, seed)
    /\ UNCHANGED <<ghosts, helperVars>>

CheckPasswordStrength ==
    /\ "password" \in DOMAIN arg[1]
    /\ checkPasswordStrengthOp(arg[1].password)
    /\ UNCHANGED <<ghosts, helperVars>>

NextHelpers ==
    \/ GeneratePassword
    \/ CheckPasswordStrength

SpecHelpers == InitHelpers /\ [][NextHelpers]_vars

----------------------------------------------------------------------------
(* SpecTouch: gated operations and the three operations without a gate,    *)
(* called while the clock runs.                                            *)

GenerateOne ==
    /\ generatePasswordOp([length |-> 20], [start |-> 0, step |-> 1])
    /\ UNCHANGED <<ghosts, helperVars>>
CheckOne == checkPasswordStrengthOp(pHunter2) /\ UNCHANGED <<ghosts, helperVars>>

NextTouch ==
    \/ IdleSetup
    \/ Lock
    \/ Tick
    \/ AutoLockFires
    \/ AddPassword
    \/ GetPasswords
    \/ AddSecureNote
    \/ GetStatistics
    \/ ExportData
    \/ FindDuplicates
    \/ HasMasterPassword
    \/ GenerateOne
    \/ CheckOne

SpecTouch == Init /\ [][NextTouch]_vars

----------------------------------------------------------------------------
(* SpecUsage: two credentials are read one at a time, listed and searched, *)
(* also after a second setup has replaced the key. The clock stops before  *)
(* the idle delay is over.                                                 *)

MaxUsageTime == 1

\* setupMasterPassword called again, with another password
SecondSetup == CallSetup(pwPassw0rd, <<171, 0>>, 1)

UsageTick == now < MaxUsageTime /\ Tick

NextUsage ==
    \/ IdleSetup
    \/ SecondSetup
    \/ UsageTick
    \/ AddListed
    \/ GetOne
    \/ GetPasswords
    \/ SearchPasswords

SpecUsage == Init /\ [][NextUsage]_vars

----------------------------------------------------------------------------
(* SpecNotes: secure notes are saved under ids of the caller, also after a *)
(* second setup has replaced the key, and listed.                          *)

NextNotes ==
    \/ IdleSetup
    \/ SecondSetup
    \/ Lock
    \* 'pm-add-note' with an id chosen by the caller
    \/ \E id \in NoteIds \cup {"n2"}, iv \in IVs :
          Call(addSecureNote([id |-> Some(id), title |-> tTitle, content |-> pS3cret],
                             id, iv))
    \/ GetSecureNotes
    \/ DeleteSecureNote

SpecNotes == Init /\ [][NextNotes]_vars

----------------------------------------------------------------------------
(* SpecWork: the database file was set up by an engine whose iteration     *)
(* count is the one of this build or a raised one; this process opens it   *)
(* and unlocks.                                                            *)

\* initialize() and saveMasterPasswordSettings() of an engine constructed with
\* this.iterations = n, run in an earlier process on the same database file
SetupElsewhere ==
    \E n \in {iterations, 2 * iterations} :
        LET key == [pw |-> pwTroubador, salt |-> <<10, 255>>, iter |-> n]
        IN  /\ isLocked /\ masterKey = None /\ ~hasMasterPassword /\ dbOpen
            /\ password_settings' =
                    saveMasterPasswordSettings(ToHex(<<10, 255>>),
                                               encrypt(key, 1, verificationData), n)
            /\ setupPassword' = Some(pwTroubador)
            /\ UNCHANGED <<sessionVars, keyVars, passwords, password_history, secure_notes,
                           envVars, result, idle, stored, pushed, helperVars>>

NextWork ==
    \/ SetupElsewhere
    \/ IdleSetup
    \/ IdleUnlock
    \/ Lock
    \/ Tick
    \/ AutoLockFires

SpecWork == Init /\ [][NextWork]_vars

----------------------------------------------------------------------------
(* SpecFlight: getPasswords() taken apart into its steps. The handlers and *)
(* the timer callback are tasks of one event loop; none of them contains   *)
(* an await, so a task starts only when no other task is on the stack.     *)

\* a task that starts at any moment, as on a second thread
Preempting == TRUE

\* the event loop takes the next task: the stack is empty
EventLoopIdle == arg = None

\* getPasswords() up to the call of encrypted.map(...); the frame also
\* records the key that is resident at this moment
BeginList ==
    /\ EventLoopIdle
    /\ IF isLocked
       THEN Refused("getPasswords") /\ UNCHANGED arg
       ELSE /\ Touch
            /\ IF ~dbOpen
               THEN Threw("getPasswords") /\ UNCHANGED arg
               ELSE /\ \E rows \in getPasswords(None) :
                         arg' = Some([encrypted |-> rows, index |-> 0,
                                      decrypted |-> <<>>, key |-> masterKey])
                    /\ UNCHANGED result
            /\ UNCHANGED <<keyVars, envVars, tables>>
    /\ Used
    /\ UNCHANGED <<setupPassword, stored, pushed, sealed, wire, walletVars>>

\* one call of the map callback: decryptPasswordEntry(entry) under the key
\* this.masterKey holds now, or null when it throws
DecryptNext ==
    /\ arg # None
    /\ arg[1].index < Len(arg[1].encrypted)
    /\ LET entry == arg[1].encrypted[arg[1].index + 1]
       IN  arg' = Some([arg[1] EXCEPT
                        !.index = @ + 1,
                        !.decrypted = IF decryptEntryThrows(entry) THEN @
                                      ELSE Append(@, decryptPasswordEntry(entry))])
    /\ UNCHANGED <<sessionVars, keyVars, tables, envVars, result, ghosts, sealed, wire,
                   walletVars>>

\* return { success: true, passwords: decrypted }
EndList ==
    /\ arg # None
    /\ arg[1].index = Len(arg[1].encrypted)
    /\ result' = Ret("getPasswords", TRUE, "", arg[1].decrypted)
    /\ arg' = None
    /\ UNCHANGED <<sessionVars, keyVars, tables, envVars, ghosts, sealed, wire, walletVars>>

NextFlight ==
    \/ EventLoopIdle /\ IdleSetup
    \/ EventLoopIdle /\ ImportUnlock
    \/ EventLoopIdle /\ Lock
    \/ EventLoopIdle /\ AutoLockFires
    \/ EventLoopIdle /\ AddListed
    \/ Tick
    \/ BeginList
    \/ DecryptNext
    \/ EndList

SpecFlight == Init /\ [][NextFlight]_vars

----------------------------------------------------------------------------
(* The wallet's PasswordManager (passwordManager.js) and its handlers in   *)
(* the main process. setPassword, verifyPassword and changePassword await  *)
(* bcrypt; a call suspended at an await is a frame of inFlight, and other  *)
(* handlers run until it is resumed.                                       *)

maxFailedAttempts == 5
\* 30 minutes, in ticks of the clock
lockoutDuration == 2

\* handlers that may be suspended at the same time
MaxInFlight == 2

pwNew == <<"N", "3", "w", "&", "P", "a", "s", "s">>
\* validatePasswordStrength(password)
validatePasswordStrength(password) ==
    /\ Len(password) >= 8
    /\ HasChar(password, UpperChars)
    /\ HasChar(password, LowerChars)
    /\ HasChar(password, DigitChars)
    /\ HasChar(password, {"!", "@", "#", "$", "%", "^", "&", "*", "(", ")", ",", ".", "?",
                           "\"", ":", "{", "}", "|", "<", ">"})

\* bcrypt.hash(password, salt): compare does not depend on the salt
bcryptHash(password) == [bcrypt |-> password]
\* bcrypt.compare(password, hash)
bcryptCompare(password, hash) == hash = bcryptHash(password)

\* deriveKeyFromPassword(password)
deriveKeyFromPassword(password) ==
    [pbkdf2 |-> password, salt |-> "eb-wallet-salt", iter |-> 100000]

\* isLockedOut(): its value
isLockedOut(w) == w.lockoutTime # None /\ now - w.lockoutTime[1] < lockoutDuration

\* isLockedOut(): the fields afterwards; a lockout that is over is reset
isLockedOutReset(w) ==
    IF w.lockoutTime # None /\ ~isLockedOut(w)
    THEN [w EXCEPT !.lockoutTime = None, !.failedAttempts = 0]
    ELSE w

\* the frames of inFlight without frame i
Resumed(i) == SubSeq(inFlight, 1, i - 1) \o SubSeq(inFlight, i + 1, Len(inFlight))

\* what no wallet handler writes
vaultVars == <<sessionVars, keyVars, tables, envVars, ghosts, sealed, arg, wire>>

\* verifyPassword(password), up to await bcrypt.compare(password, hash)
verifyPassword(password) ==
    /\ IF isLockedOut(walletAuth)
       THEN /\ result' = Ret("verifyPassword", FALSE, "Too many failed attempts. Try again",
                             <<walletAuth.lockoutTime[1] + lockoutDuration - now>>)
            /\ UNCHANGED walletVars
       ELSE /\ walletAuth' = isLockedOutReset(walletAuth)
            /\ IF walletAuth.passwordHash = None
               THEN /\ result' = Ret("verifyPassword", FALSE, "No password set", <<>>)
                    /\ UNCHANGED inFlight
               ELSE /\ inFlight' = Append(inFlight,
                                          [op |-> "verifyPassword", awaits |-> "compare",
                                           password |-> password,
                                           hash |-> walletAuth.passwordHash[1]])
                    /\ UNCHANGED result
    /\ UNCHANGED vaultVars

\* verifyPassword(password), from the value of bcrypt.compare on
verifyPasswordCompared(i) ==
    LET frame == inFlight[i]
        failed == walletAuth.failedAttempts + 1
    IN  /\ frame.op = "verifyPassword"
        /\ inFlight' = Resumed(i)
        /\ IF bcryptCompare(frame.password, frame.hash)
           THEN /\ walletAuth' = [walletAuth EXCEPT !.failedAttempts = 0,
                                                    !.lockoutTime = None,
                                                    !.isUnlocked = TRUE,
                                                    !.unlockTime = Some(now)]
                /\ result' = Ret("verifyPassword", TRUE, "", <<>>)
           ELSE IF failed >= maxFailedAttempts
           THEN /\ walletAuth' = [walletAuth EXCEPT !.failedAttempts = failed,
                                                    !.lockoutTime = Some(now)]
                /\ result' = Ret("verifyPassword", FALSE,
                                 "Too many failed attempts. Wallet locked", <<>>)
           ELSE /\ walletAuth' = [walletAuth EXCEPT !.failedAttempts = failed]
                /\ result' = Ret("verifyPassword", FALSE, "Invalid password",
                                 <<maxFailedAttempts - failed>>)
        /\ UNCHANGED vaultVars

\* 'password-set' and setPassword(password), up to await bcrypt.genSalt(10)
setPassword(password) ==
    /\ IF Len(password) < 8
       THEN /\ result' = Ret("setPassword", FALSE,
                             "Password must be at least 8 characters", <<>>)
            /\ UNCHANGED inFlight
       ELSE IF ~validatePasswordStrength(password)
       THEN /\ result' = Ret("setPassword", FALSE,
                             "Password does not meet requirements", <<>>)
            /\ UNCHANGED inFlight
       ELSE /\ inFlight' = Append(inFlight, [op |-> "setPassword", awaits |-> "hash",
                                             password |-> password])
            /\ UNCHANGED result
    /\ UNCHANGED <<walletAuth, vaultVars>>

\* 'password-change' and changePassword(oldPassword, newPassword), up to
\* await bcrypt.compare(oldPassword, hash); compare throws without a hash
changePassword(oldPassword, newPassword) ==
    /\ IF Len(newPassword) < 8
       THEN /\ result' = Ret("changePassword", FALSE,
                             "New password must be at least 8 characters", <<>>)
            /\ UNCHANGED inFlight
       ELSE IF walletAuth.passwordHash = None
       THEN Threw("changePassword") /\ UNCHANGED inFlight
       ELSE /\ inFlight' = Append(inFlight,
                                  [op |-> "changePassword", awaits |-> "compare",
                                   password |-> oldPassword,
                                   hash |-> walletAuth.passwordHash[1],
                                   newPassword |-> newPassword])
            /\ UNCHANGED result
    /\ UNCHANGED <<walletAuth, vaultVars>>

\* changePassword, from the value of bcrypt.compare to the await in setPassword
changePasswordCompared(i) ==
    LET frame == inFlight[i]
    IN  /\ frame.op = "changePassword"
        /\ frame.awaits = "compare"
        /\ IF ~bcryptCompare(frame.password, frame.hash)
           THEN /\ result' = Ret("changePassword", FALSE, "Current password is incorrect",
                                 <<>>)
                /\ inFlight' = Resumed(i)
           ELSE IF ~validatePasswordStrength(frame.newPassword)
           THEN /\ result' = Ret("changePassword", FALSE,
                                 "Password does not meet requirements", <<>>)
                /\ inFlight' = Resumed(i)
           ELSE /\ inFlight' = [inFlight EXCEPT ![i] =
                                   [op |-> "changePassword", awaits |-> "hash",
                                    password |-> frame.newPassword]]
                /\ UNCHANGED result
        /\ UNCHANGED <<walletAuth, vaultVars>>

\* setPassword, from the value of bcrypt.hash on: the two store.set calls
setPasswordHashed(i) ==
    LET frame == inFlight[i]
    IN  /\ frame.awaits = "hash"
        /\ inFlight' = Resumed(i)
        /\ walletAuth' = [walletAuth EXCEPT
                             !.passwordHash = Some(bcryptHash(frame.password)),
                             !.encryptionKey = Some(deriveKeyFromPassword(frame.password))]
        /\ result' = Ret(frame.op, TRUE, "", <<>>)
        /\ UNCHANGED vaultVars

----------------------------------------------------------------------------
(* SpecLockout: the wallet password is set, verified and changed by calls  *)
(* that the renderer may issue before earlier ones have returned.          *)

NextLockout ==
    \* 'password-set'
    \/ \E password \in {pwTroubador, pwPassw0rd, pwWrong} :
          Len(inFlight) < MaxInFlight /\ setPassword(password)
    \* 'password-verify'
    \/ \E password \in {pwTroubador, pwWrong} :
          Len(inFlight) < MaxInFlight /\ verifyPassword(password)
    \* 'password-change'
    \/ \E oldPassword \in {pwTroubador, pwWrong},
          newPassword \in {pwNew, pwPassw0rd, pwWrong} :
          Len(inFlight) < MaxInFlight /\ changePassword(oldPassword, newPassword)
    \* a suspended call is resumed
    \/ \E i \in 1..Len(inFlight) : verifyPasswordCompared(i)
    \/ \E i \in 1..Len(inFlight) : changePasswordCompared(i)
    \/ \E i \in 1..Len(inFlight) : setPasswordHashed(i)
    \/ Tick

SpecLockout == Init /\ [][NextLockout]_vars

----------------------------------------------------------------------------
(* Claims about the session, checked under Spec.                           *)

\* C2: once setupMasterPassword(pw) has succeeded and the session is locked,
\* unlock(pw) succeeds and unlocks the session, and unlock of any other
\* password reports 'Incorrect master password' and leaves it locked.
C2_UnlockAfterSetup ==
    [][\A pw \in MasterPasswords :
          (isLocked /\ dbOpen /\ setupPassword # None /\ CallUnlock(pw)) =>
              IF pw = setupPassword[1]
              THEN result'.success /\ ~isLocked'
              ELSE /\ ~result'.success
                   /\ result'.error = IncorrectError
                   /\ isLocked']_vars

\* a session locked by lock() has been unlocked again
C2_Witness ==
    /\ result.op = "unlock"
    /\ result.success
    /\ ~isLocked
    /\ droppedBuffer = "scrubbed"

\* C3: while the session is locked or no master password is set up, no
\* derived key is resident.
C3_NoKeyWhileLocked == (isLocked \/ ~hasMasterPassword) => masterKey = None

\* C4: lock() leaves the session locked, with no key, the key buffer
\* overwritten and no timer pending, and returns success, whether or not
\* the session was unlocked.
C4_LockScrubs ==
    [][CallLock =>
          /\ isLocked'
          /\ masterKey' = None
          /\ autoLockTimer' = None
          /\ result'.success
          /\ (masterKey # None => droppedBuffer' = "scrubbed")]_vars

\* lock() has run on an unlocked session that held a key
C4_Witness ==
    /\ result.op = "lock"
    /\ isLocked
    /\ setupPassword # None
    /\ droppedBuffer = "scrubbed"

\* C6: a successful setupMasterPassword(pw) with no settings persisted
\* leaves the session unlocked with the timer pending and exactly one
\* settings row, whose verifier decrypts to the marker under the key derived
\* from pw and the persisted salt; and one row stays one row.
C6_SetupCreatesSettings ==
    [][/\ \A pw \in MasterPasswords, s \in Salts, iv \in IVs :
            (~hasMasterPassword /\ CallSetup(pw, s, iv) /\ result'.success) =>
                /\ ~isLocked'
                /\ autoLockTimer' # None
                /\ Len(password_settings') = 1
                /\ verifyMasterPassword(pw, password_settings'[1].salt,
                                        password_settings'[1].verification_hash)
       /\ (Len(password_settings) = 1 => Len(password_settings') = 1)]_vars

\* setup has succeeded a second time
C6_Witness ==
    /\ result.op = "setupMasterPassword"
    /\ result.success
    /\ droppedBuffer # "none"
    /\ Len(password_settings) = 1

\* C7: once a settings row exists, no step changes its salt or its verifier.
C7_SettingsNeverChange ==
    [][Len(password_settings) > 0 =>
          /\ Len(password_settings') > 0
          /\ password_settings'[1].salt = password_settings[1].salt
          /\ password_settings'[1].verification_hash =
                password_settings[1].verification_hash]_vars

\* C8: a successful getPasswords() returns every credential that was added
\* and neither updated nor deleted since, with its domain and its password.
C8_StoredCredentialsReturned ==
    (result.op = "getPasswords" /\ result.success) =>
        \A e \in stored :
            \E i \in 1..Len(result.data) :
                /\ result.data[i].id = e.id
                /\ result.data[i].domain = e.domain
                /\ result.data[i].password = e.password


----------------------------------------------------------------------------
(* Claims about the gate, checked under SpecGate.                          *)

\* C1: while the session is locked, each of the twelve gated operations
\* returns the locked error and leaves the four tables as they were.
C1_LockedRefuses ==
    [][(isLocked /\ GatedCall) =>
          /\ ~result'.success
          /\ result'.error = LockedError
          /\ UNCHANGED tables]_vars

\* a delete refused on a locked session whose store holds a credential
C1_Witness ==
    /\ isLocked
    /\ result.op = "deletePassword"
    /\ result.error = LockedError
    /\ passwords # {}
    /\ secure_notes # {}

----------------------------------------------------------------------------
(* Claims about the idle timer, checked under SpecIdle.                    *)

\* C5: an unlocked session is locked when a whole window has passed since
\* the last vault operation, and the timer locks it no earlier than that.
C5_IdleAutoLock ==
    /\ []((~isLocked /\ dbOpen) => idle <= autoLockDelay)
    /\ [][AutoLockFires => (idle = autoLockDelay /\ isLocked')]_vars

\* the timer has locked a session whose last operation came after a tick
C5_Witness ==
    /\ isLocked
    /\ dbOpen
    /\ result.op = "getPasswords"
    /\ result.success
    /\ idle = autoLockDelay
    /\ now = autoLockDelay + 1

----------------------------------------------------------------------------
(* Claims about the history, checked under SpecHistory.                    *)

HistoryOf(id) == SelectSeq(password_history, LAMBDA x : x.password_id = id)

\* C9: no credential id has more than five history records.
C9_HistoryBounded == \A id \in AllIds : Len(HistoryOf(id)) <= HistoryLimit

\* more updates than the limit have succeeded and the limit is reached
C9_Witness ==
    \E id \in AllIds :
        /\ Len(pushed[id]) > HistoryLimit
        /\ Len(HistoryOf(id)) = HistoryLimit

\* C10: after n successful password updates of a credential its history is
\* the encrypted passwords replaced by the last min(n, 5) of them.
C10_HistoryIsLastUpdates ==
    \A id \in AllIds :
        (\E r \in passwords : r.id = id) =>
            LET n == Len(pushed[id])
                k == Min(n, HistoryLimit)
            IN  /\ Len(HistoryOf(id)) = k
                /\ \A j \in 1..k :
                      HistoryOf(id)[j].encrypted_old_password = pushed[id][n - k + j]

----------------------------------------------------------------------------
(* Claims about encrypt() and decrypt(), checked under SpecCrypto.         *)

----------------------------------------------------------------------------
(* Claims about what the store holds, checked under SpecImport.            *)

ProducedByEncrypt(blob) ==
    \E pw \in MasterPasswords, s \in Salts, iv \in IVs,
       pt \in {pHunter2, pS3cret, verificationData} :
        blob = encrypt(deriveKey(pw, s), iv, pt)

\* C14: every encrypted_password, encrypted_notes, encrypted_old_password and
\* encrypted_content in the store is a blob that encrypt produced.
C14_OnlyCiphertextStored ==
    /\ \A r \in passwords :
          /\ ProducedByEncrypt(r.encrypted_password)
          /\ r.encrypted_notes # None => ProducedByEncrypt(r.encrypted_notes[1])
    /\ \A i \in 1..Len(password_history) :
          ProducedByEncrypt(password_history[i].encrypted_old_password)
    /\ \A n \in secure_notes : ProducedByEncrypt(n.encrypted_content)

----------------------------------------------------------------------------
(* Claims about refused and failing calls.                                 *)

\* C15: setupMasterPassword with a password that scores below 3 is refused
\* with the weak-password error and changes nothing: the tables, the key,
\* the lock flag, the timer and the idle count stay as they were.
C15_WeakSetupRefused ==
    [][\A pw \in MasterPasswords, s \in Salts, iv \in IVs :
          (/\ result'.op = "setupMasterPassword"
           /\ Max(0, Min(RawScore(pw), 10)) < 3
           /\ CallSetup(pw, s, iv)) =>
              /\ ~result'.success
              /\ result'.error = WeakError
              /\ UNCHANGED <<tables, keyVars, sessionVars, idle>>]_vars

\* a weak password was refused on an unlocked session whose timer was running
C15_Witness ==
    /\ result.op = "setupMasterPassword"
    /\ result.error = WeakError
    /\ ~isLocked
    /\ autoLockTimer = Some(1)
    /\ idle = 1

\* C16: with the session unlocked, getPasswords and searchPasswords succeed
\* although a stored credential cannot be decrypted: every credential that
\* decrypts is returned, and each one that does not is named in the result.
C16_BatchIsolation ==
    (result.op \in {"getPasswords", "searchPasswords"} /\ ~isLocked /\ dbOpen) =>
        /\ result.success
        /\ \A r \in passwords :
              IF decryptEntryThrows(r)
              THEN \E i \in 1..Len(result.data) : result.data[i].id = r.id
              ELSE \E i \in 1..Len(result.data) : result.data[i] = decryptPasswordEntry(r)

\* C17: whatever an interface operation is called with and in whatever
\* state, it returns a value; no exception leaves the handler.
C17_AlwaysReturns == "raised" \notin DOMAIN result

\* the settings row is the one a setup with the password of the last
\* successful setup writes
IntactSettings ==
    \E s \in Salts, iv \in IVs :
        /\ password_settings[1].salt = ToHex(s)
        /\ password_settings[1].verification_hash =
              encrypt(deriveKey(setupPassword[1], s), iv, verificationData)

\* C18: unlock with a wrong password and unlock with the right password
\* against a damaged salt or verifier return one and the same result.
C18_UnlockFailureGeneric ==
    [][\A pw \in MasterPasswords :
          (/\ dbOpen
           /\ hasMasterPassword
           /\ setupPassword # None
           /\ pw # setupPassword[1] \/ ~IntactSettings
           /\ CallUnlock(pw)) =>
              result' = Ret("unlock", FALSE, IncorrectError, <<>>)]_vars

\* the right password was refused against damaged settings
C18_Witness ==
    /\ result = Ret("unlock", FALSE, IncorrectError, <<>>)
    /\ hasMasterPassword
    /\ ~IntactSettings
    /\ masterKey # None
    /\ masterKey[1].pw = setupPassword[1]

----------------------------------------------------------------------------
(* Claims about the helpers, checked under SpecHelpers.                    *)

\* C19: generatePassword with a length from 8 to 64 and at least one class
\* enabled returns as many characters as the length says, each one from an
\* enabled class and none that an enabled exclusion names.
C19_GeneratedFromCharset ==
    (result.op = "generatePassword" /\ "options" \in DOMAIN arg[1]) =>
        LET opts == MergeOptions(arg[1].options)
            allowed ==
                ((IF opts.lowercase THEN LowerChars ELSE {})
                 \cup (IF opts.uppercase THEN UpperChars ELSE {})
                 \cup (IF opts.numbers THEN DigitChars ELSE {})
                 \cup (IF opts.symbols
                       THEN {ClassChars.symbols[i] : i \in 1..Len(ClassChars.symbols)}
                       ELSE {}))
                \ ((IF opts.excludeSimilar THEN ExcludedChars.excludeSimilar ELSE {})
                    \cup (IF opts.excludeAmbiguous
                          THEN ExcludedChars.excludeAmbiguous ELSE {}))
        IN  (/\ opts.length \in 8..64
             /\ opts.lowercase \/ opts.uppercase \/ opts.numbers \/ opts.symbols) =>
                /\ result.success
                /\ Len(result.data[1].password) = opts.length
                /\ \A i \in 1..opts.length : result.data[1].password[i] \in allowed

\* 64 characters were drawn from digits and symbols under both exclusions
C19_Witness ==
    /\ result.op = "generatePassword"
    /\ result.success
    /\ arg[1].options =
          [length |-> 64, uppercase |-> FALSE, lowercase |-> FALSE, numbers |-> TRUE,
           symbols |-> TRUE, excludeSimilar |-> TRUE, excludeAmbiguous |-> TRUE]
    /\ \E i, j \in 1..64 :
          /\ result.data[1].password[i] = "2"
          /\ result.data[1].password[j] = "?"

\* C20: the score checkPasswordStrength returns is the sum of one point for
\* each length tier reached (8, 12, 16) and each class present (lower,
\* upper, digit, symbol), less one point each for an all-digit password, an
\* all-alphabetic password and a run of three or more equal characters,
\* clamped to 0..10.
C20_ScoreFormula ==
    (result.op = "checkPasswordStrength" /\ "password" \in DOMAIN arg[1]) =>
        LET password == arg[1].password
            len == Len(password)
            alphabetic == LowerChars \cup UpperChars
            Has(class) == \E i \in 1..len : password[i] \in class
            All(class) == len > 0 /\ \A i \in 1..len : password[i] \in class
            run == \E i \in 1..(len - 2) :
                      password[i] = password[i + 1] /\ password[i + 1] = password[i + 2]
            B(x) == IF x THEN 1 ELSE 0
            p == B(len >= 8) + B(len >= 12) + B(len >= 16)
                 + B(Has(LowerChars)) + B(Has(UpperChars)) + B(Has(DigitChars))
                 + B(\E i \in 1..len : password[i] \notin alphabetic \cup DigitChars)
                 - B(All(DigitChars)) - B(All(alphabetic)) - B(run)
        IN  /\ result.data[1].score = Max(0, Min(p, 10))
            /\ result.data[1].score \in 0..10

----------------------------------------------------------------------------
(* Claims about the store.                                                 *)

\* C22: importData of a bundle exportData returned, into a store that holds
\* no credential, history record or note, leaves the three tables as they
\* were when the bundle was exported.
C22_BackupRoundTrip ==
    [][(/\ result'.op = "importData"
        /\ ImportBackup
        /\ ~isLocked
        /\ passwords = {}
        /\ password_history = <<>>
        /\ secure_notes = {}) =>
          /\ passwords' = sealed[1].passwords
          /\ password_history' = sealed[1].password_history
          /\ secure_notes' = sealed[1].secure_notes]_vars

\* the plaintext of a stored credential's password under the resident key
PlainPassword(r) == decrypt(masterKey, r.encrypted_password)

\* C23: findDuplicates puts two stored credentials into one group exactly
\* when their decrypted passwords are equal, and getStatistics counts the
\* groups of equal plaintext.
C23_GroupsByPlaintext ==
    [][/\ (result'.op = "findDuplicatePasswords" /\ result'.success) =>
            \A r1, r2 \in passwords :
                r1.id # r2.id =>
                    ((\E g \in result'.data[1] : {r1.id, r2.id} \subseteq {e.id : e \in g})
                        <=> PlainPassword(r1) = PlainPassword(r2))
       /\ (result'.op = "getStatistics" /\ result'.success) =>
            result'.data[1].duplicateCount =
                Cardinality({pw \in {PlainPassword(r) : r \in passwords} :
                    Cardinality({r \in passwords : PlainPassword(r) = pw}) > 1})]_vars

\* the entries of a list are in the order last_used descending (an entry
\* never used after every used one), then modified_at descending
InUseOrder(list) ==
    \A i, j \in 1..Len(list) : i < j => ~ByUseThenModified(list[j], list[i])

\* text contains part, letters compared in either case
Contains(text, part) ==
    \E k \in 0..(Len(text) - Len(part)) :
        \A i \in 1..Len(part) : ToLowerChar(text[k + i]) = ToLowerChar(part[i])

\* C24: getCredentials returns the entries ordered by lastUsedAt descending,
\* then modifiedAt descending, with and without a filter; with a filter it
\* returns exactly the entries whose domain contains the filter, letters
\* compared in either case.
C24_ListOrder ==
    [][(result'.op = "getPasswords" /\ result'.success) =>
          /\ InUseOrder(result'.data)
          /\ \A domain \in Filters :
                ListFiltered(domain) =>
                    {result'.data[i].id : i \in 1..Len(result'.data)} =
                        {r.id : r \in {q \in passwords : Contains(q.domain, domain)}}]_vars

\* the ids of the stored credentials
StoredIds == {r.id : r \in passwords}

\* no two rows of the table share an id
UniqueIds(rows) == \A r1, r2 \in rows : r1.id = r2.id => r1 = r2

\* C25 as stated: updateCredential leaves the ids as they are, no two rows
\* share an id, and the set of ids changes only by add, which adds one new
\* id, and by delete, which removes one.
C25_IdsAddDelete ==
    [][/\ result'.op = "updatePassword" => StoredIds' = StoredIds
       /\ UniqueIds(passwords')
       /\ StoredIds' # StoredIds =>
            \/ /\ result'.op = "addPassword"
               /\ \E id \in StoreIds \ StoredIds : StoredIds' = StoredIds \cup {id}
            \/ /\ result'.op = "deletePassword"
               /\ \E id \in StoredIds : StoredIds' = StoredIds \ {id}]_vars

\* C25 as amended: the set of ids changes also by importData, which adds
\* ids and removes none.
C25_IdsAddDeleteImport ==
    [][/\ result'.op = "updatePassword" => StoredIds' = StoredIds
       /\ UniqueIds(passwords')
       /\ StoredIds' # StoredIds =>
            \/ /\ result'.op = "addPassword"
               /\ \E id \in StoreIds \ StoredIds : StoredIds' = StoredIds \cup {id}
            \/ /\ result'.op = "deletePassword"
               /\ \E id \in StoredIds : StoredIds' = StoredIds \ {id}
            \/ /\ result'.op = "importData"
               /\ StoredIds \subseteq StoredIds']_vars

\* two credentials are stored, one of them brought in by an import, the
\* other updated since, its replaced password in the history
C25_Witness ==
    /\ StoredIds = StoreIds
    /\ result.op = "updatePassword"
    /\ result.success
    /\ password_history # <<>>
    /\ \E r \in passwords : r.tags.depth = 2
    /\ \E r \in passwords : r.tags.depth = 1 /\ PlainPassword(r) = pS3cret

\* C26: an updateCredential that names a new password either pushes the
\* replaced password to the history and overwrites the row, or, when it
\* returns an error, leaves the row and the history exactly as they were.
C26_UpdateAtomic ==
    [][result'.op = "updatePassword" =>
        \A id \in AllIds, d \in UpdatedEntries \cup PartialEntries :
            (~isLocked /\ CallUpdate(id, d, 1, 1)) =>
                IF result'.success
                THEN /\ \E r \in passwords' : r.id = id /\ PlainPassword(r)' = d.password
                     /\ \E i \in 1..Len(password_history') :
                          /\ password_history'[i].password_id = id
                          /\ password_history'[i].encrypted_old_password =
                                (CHOOSE r \in passwords : r.id = id).encrypted_password
                ELSE /\ passwords' = passwords
                     /\ password_history' = password_history]_vars

C28_EveryCallTouches ==
    [][(/\ ~isLocked
        /\ result'.op \notin {"setupMasterPassword", "lock"}
        /\ \/ AddPassword
           \/ GetPasswords
           \/ AddSecureNote
           \/ GetStatistics
           \/ ExportData
           \/ FindDuplicates
           \/ HasMasterPassword
           \/ GenerateOne
           \/ CheckOne) =>
          /\ autoLockTimer' = Some(autoLockDelay)
          /\ ~isLocked']_vars

\* C29: from the moment getPasswords() has passed the isLocked check until
\* it returns, the session is unlocked and the resident key is the key that
\* was resident at entry: no lock, explicit or by the timer, clears or
\* replaces it, and the entries decrypted so far are what that key decrypts.
C29_KeyHeldInFlight ==
    arg # None =>
        /\ ~isLocked
        /\ masterKey # None
        /\ masterKey = arg[1].key
        /\ arg[1].decrypted = DecryptAll(SubSeq(arg[1].encrypted, 1, arg[1].index))

\* the timer's delay ran out while getPasswords() was between its two
\* decryptions
C29_Witness ==
    /\ arg # None
    /\ autoLockTimer = Some(0)
    /\ Len(arg[1].encrypted) = 2
    /\ arg[1].index = 1
    /\ Len(arg[1].decrypted) = 1

\* C30: a successful getCredential(id) adds one to the use_count of id,
\* sets its lastUsedAt to the present and changes no other entry; a failing
\* getCredential, getCredentials and searchCredentials change no entry.
C30_UsageRecorded ==
    [][/\ result'.op = "getPassword" =>
            \A id \in StoreIds :
                Call(getPasswordOp(id)) =>
                    IF result'.success
                    THEN passwords' =
                            {IF r.id = id
                             THEN [r EXCEPT !.use_count = @ + 1, !.last_used = Some(now)]
                             ELSE r : r \in passwords}
                    ELSE passwords' = passwords
       /\ (result'.op \in {"getPasswords", "searchPasswords"}
            /\ (GetPasswords \/ SearchPasswords)) => passwords' = passwords]_vars

\* of two stored credentials one has been read twice, the second time just
\* now and later than it was added, and the other never
C30_Witness ==
    /\ result.op = "getPassword"
    /\ result.success
    /\ now > 0
    /\ \E r1, r2 \in passwords :
          /\ r1.use_count = 2
          /\ r1.last_used = Some(now)
          /\ r1.created_at < now
          /\ r2.use_count = 0
          /\ r2.last_used = None

----------------------------------------------------------------------------
(* Claims about notes, the iteration count, shutdown, frame conditions of  *)
(* add and update, and the wallet's lockout.                               *)

\* C31: with the session unlocked, getSecureNotes succeeds although a stored
\* note cannot be decrypted, and returns every note that can.
C31_NotesIsolated ==
    (result.op = "getSecureNotes" /\ ~isLocked /\ dbOpen) =>
        /\ result.success
        /\ \A n \in secure_notes :
              ~decryptThrows(masterKey, n.encrypted_content) =>
                  \E i \in 1..Len(result.data) : result.data[i] = DecryptNote(n)

\* C32: unlock with the password the vault was set up with succeeds, whatever
\* iteration count the settings row records.
C32_StoredIterationsUsed ==
    [][(result'.op = "unlock" /\ hasMasterPassword /\ dbOpen
        /\ CallUnlock(pwTroubador) /\ setupPassword = Some(pwTroubador))
       => result'.success]_vars

\* C33: after destroy the session is locked: isLocked is true, no key is
\* resident and no auto-lock timer is pending.
C33_ShutdownLocks ==
    result.op = "destroy" => (isLocked /\ masterKey = None /\ autoLockTimer = None)

\* C34: whenever the session is unlocked, the resident key opens the stored
\* verifier: it decrypts to the marker under the key.
C34_ResidentKeyIsVaultKey ==
    (~isLocked /\ hasMasterPassword) =>
        /\ masterKey # None
        /\ ~decryptThrows(masterKey, getMasterPasswordSettings.verification_hash)
        /\ decrypt(masterKey, getMasterPasswordSettings.verification_hash)
               = verificationData

\* C35: a successful updatePassword(id, passwordData) leaves created_at,
\* use_count and last_used of the row as they were, and also the username,
\* notes and favicon that passwordData does not carry.
C35_UpdateKeepsOtherFields ==
    [][\A id \in AllIds, d \in UpdatedEntries \cup PartialEntries :
          (result'.op = "updatePassword" /\ result'.success /\ CallUpdate(id, d, 1, 1)) =>
              \A r \in getPassword(id) :
                  \E q \in passwords' :
                      /\ q.id = id
                      /\ q.created_at = r.created_at
                      /\ q.use_count = r.use_count
                      /\ q.last_used = r.last_used
                      /\ d.username = None => q.username = r.username
                      /\ d.notes = None => q.encrypted_notes = r.encrypted_notes
                      /\ d.favicon = None => q.favicon = r.favicon]_vars

\* C36: a successful addPassword adds exactly one row to the table and
\* leaves every row stored before, and the history, as they were.
C36_AddOverwritesNothing ==
    [][(result'.op = "addPassword" /\ result'.success /\ (AddListed \/ AddAs)) =>
          /\ Cardinality(passwords') = Cardinality(passwords) + 1
          /\ passwords \subseteq passwords'
          /\ password_history' = password_history]_vars

\* C37: an auto-lock timer is pending exactly while the session is unlocked.
C37_TimerIffUnlocked == ~isLocked <=> autoLockTimer # None

\* C38: the count of failed verifications never exceeds maxFailedAttempts.
C38_AttemptsBounded == walletAuth.failedAttempts <= maxFailedAttempts

\* C39: while the wallet is locked out, a changePassword call that is resumed
\* ends without reporting whether the old password is correct, and none
\* writes the password hash.
C39_LockoutHidesPassword ==
    [][\A i \in 1..Len(inFlight) :
          (isLockedOut(walletAuth) /\ inFlight[i].op = "changePassword") =>
              /\ changePasswordCompared(i) =>
                    /\ inFlight' = Resumed(i)
                    /\ result'.error # "Current password is incorrect"
              /\ ~setPasswordHashed(i)]_vars

====
